---- MODULE Spec2Model ----
(***************************************************************************)
(* A model of the ezkl iOS porter: the parameter codec                     *)
(* (src/src/serialization.rs), the proving service (src/src/prove.rs), the *)
(* verification service (src/src/verify.rs) and the witness service        *)
(* (src/src/gen_witness.rs).                                               *)
(*                                                                         *)
(* Byte buffers, JSON documents and cryptographic objects are modelled by  *)
(* what they denote: a record with a "kind" tag and the fields the code    *)
(* (or the library routine the code calls) reads from them.  The library   *)
(* routines (Params::read, VerifyingKey::read, create_proof_circuit,       *)
(* verify_proof_circuit, ...) are modelled by their contract at the call   *)
(* site: what they accept, what they reject, and what they return.         *)
(***************************************************************************)
EXTENDS Naturals, Sequences, FiniteSets, TLC

VARIABLES call

vars == <<call>>

(***************************************************************************)
(* Bounds of the model.                                                    *)
(***************************************************************************)
\* the largest logrows a circuit declares
MaxLogrows == 2
\* the largest capacity k of a supplied SRS
MaxK == 3
\* the number of distinct circuit shapes
NumShapes == 2
\* the largest reading of the clock, in ticks, for the time a forward pass took
MaxElapsed == 2

(***************************************************************************)
(* Values.                                                                 *)
(***************************************************************************)
\* ezkl::Commitments
Schemes == {"KZG", "IPA"}

\* Scheme::Curve: KZGCommitmentScheme<Bn256> and IPACommitmentScheme<G1Affine>
\* both have the curve bn256::G1Affine.
Curve(scheme) == IF scheme = "KZG" THEN "G1Affine" ELSE "G1Affine"

\* Option::None
None == [kind |-> "none"]

\* a zero-length byte buffer, and a buffer of bytes in no recognised layout
EmptyBytes == [kind |-> "empty"]
GarbageBytes == [kind |-> "garbage"]

\* a well-formed serialized SRS of capacity k in the layout of one scheme
SrsBytes(layout, k) == [kind |-> "srs", layout |-> layout, k |-> k]

\* Result::Ok and Result::Err
Ok(v) == [ok |-> TRUE, val |-> v]
Err(variant, msg) == [ok |-> FALSE, err |-> [variant |-> variant, msg |-> msg]]

(***************************************************************************)
(* Parameter codec.                                                        *)
(***************************************************************************)
\* Params::<Scheme::Curve>::read: the bytes decode only in the scheme's own
\* layout; an empty buffer or any other layout is an I/O error.
ParamsRead(scheme, bytes) ==
    IF bytes.kind = "srs" /\ bytes.layout = scheme
    THEN Ok([kind |-> "params", scheme |-> scheme, k |-> bytes.k,
             downsized |-> FALSE])
    ELSE Err("io::Error", "failed to read params")

\* Params::downsize(k)
Downsize(params, k) == [params EXCEPT !.k = k, !.downsized = TRUE]

\* a plausible slip: the parameters are returned as read, never downsized
deserialize_params_prover_nodownsize(scheme, serialized_srs, logrows) ==
    IF serialized_srs.kind = "none"
    THEN Err("IoError", "SRS must be provided")
    ELSE LET rd == ParamsRead(scheme, serialized_srs) IN
         IF ~rd.ok THEN Err("SrsError::ReadError", rd.err.msg)
         ELSE Ok(rd.val)

\* serialization.rs deserialize_params_prover::<Scheme>
deserialize_params_prover(scheme, serialized_srs, logrows) ==
    IF serialized_srs.kind = "none"
    THEN Err("IoError", "SRS must be provided")
    ELSE LET rd == ParamsRead(scheme, serialized_srs) IN
         IF ~rd.ok THEN Err("SrsError::ReadError", rd.err.msg)
         ELSE IF logrows < rd.val.k
              THEN Ok(Downsize(rd.val, logrows))
              ELSE Ok(rd.val)

\* a plausible slip: the verifier decoder rejects what it would have to downsize
deserialize_params_verifier_strict(scheme, serialized_srs, logrows) ==
    IF serialized_srs.kind = "none"
    THEN Err("IoError", "SRS must be provided")
    ELSE LET rd == ParamsRead(scheme, serialized_srs) IN
         IF ~rd.ok THEN Err("SrsError::ReadError", rd.err.msg)
         ELSE IF logrows < rd.val.k
              THEN Err("SrsError::ReadError", "unexpected capacity")
              ELSE Ok(rd.val)

\* serialization.rs deserialize_params_verifier::<Scheme>
deserialize_params_verifier(scheme, serialized_srs, logrows) ==
    IF serialized_srs.kind = "none"
    THEN Err("IoError", "SRS must be provided")
    ELSE LET rd == ParamsRead(scheme, serialized_srs) IN
         IF ~rd.ok THEN Err("SrsError::ReadError", rd.err.msg)
         ELSE IF logrows < rd.val.k
              THEN Ok(Downsize(rd.val, logrows))
              ELSE Ok(rd.val)

\* a file on disk: the path names no file, or names a file with this content
NoFile == [kind |-> "nofile"]

\* ezkl::pfsys::srs::load_srs_verifier::<Scheme>(path): open the file and
\* Params::read it
load_srs_verifier(scheme, file) ==
    IF file.kind = "nofile"
    THEN Err("SrsError::LoadError", "failed to open srs file")
    ELSE LET rd == ParamsRead(scheme, file) IN
         IF ~rd.ok THEN Err("SrsError::ReadError", rd.err.msg)
         ELSE Ok(rd.val)

\* verify.rs load_params_verifier::<Scheme>
load_params_verifier(scheme, srs_path, logrows) ==
    IF srs_path.kind = "none"
    THEN Err("IoError", "SRS path must be provided")
    ELSE LET ld == load_srs_verifier(scheme, srs_path) IN
         IF ~ld.ok THEN ld
         ELSE IF logrows < ld.val.k
              THEN Ok(Downsize(ld.val, logrows))
              ELSE Ok(ld.val)

(***************************************************************************)
(* Circuits, settings, keys and JSON documents.                            *)
(***************************************************************************)
Shapes == 1..NumShapes

\* the input values of the toy circuits
InputValues == {3}

\* GraphSettings::module_requires_polycommit: a property of the circuit's
\* visibility settings, here of its shape (the even shapes have a module that
\* commits to a polynomial)
RequiresPolycommit(shape) == shape % 2 = 0

\* GraphSettings: run_args.commitment, run_args.logrows and the rest of the
\* settings that fix the constraint system (the shape)
AllSettings ==
    [kind : {"GraphSettings"}, shape : Shapes, commitment : Schemes,
     logrows : 1..MaxLogrows]

\* the bytes of a compiled circuit: the GraphCircuit bincode decodes them to
CircuitBytes(st) == [kind |-> "circuit", settings |-> st]


\* a JSON text, by the value it is the serialization of
Json(v) == [kind |-> "json", doc |-> v]
MalformedJson == Json([kind |-> "malformed"])

\* serde_json::from_str::<T>: the text parses when it serializes a T
from_str(type, text) ==
    IF text.doc.kind = type THEN Ok(text.doc)
    ELSE Err("JsonError", "expected value")

\* serde_json::to_string
to_string(v) == Ok(Json(v))

\* serialization.rs deserialize_circuit
deserialize_circuit(compiled_circuit) ==
    IF compiled_circuit.kind = "circuit"
    THEN Ok([kind |-> "GraphCircuit", settings |-> compiled_circuit.settings])
    ELSE Err("IoError", "bincode: invalid input")

\* the bytes save_vk / save_pk write for a key made for these settings
VkBytes(st) == [kind |-> "vk", curve |-> Curve(st.commitment), settings |-> st]
PkBytes(st) == [kind |-> "pk", curve |-> Curve(st.commitment), settings |-> st]

\* VerifyingKey::read / ProvingKey::read with the circuit's params: the key's
\* recorded dimensions must be those the settings derive
KeyFits(bytes, params) ==
    /\ bytes.settings.shape = params.shape
    /\ bytes.settings.logrows = params.logrows

\* serialization.rs deserialize_vk::<Scheme, C>
deserialize_vk(scheme, serialised_vk, params) ==
    IF /\ serialised_vk.kind = "vk"
       /\ serialised_vk.curve = Curve(scheme)
       /\ KeyFits(serialised_vk, params)
    THEN Ok([kind |-> "VerifyingKey", settings |-> serialised_vk.settings,
             read_as |-> scheme])
    ELSE Err("PfsysError::LoadVk", "failed to read verifying key")

\* serialization.rs deserialize_pk::<Scheme, C>
deserialize_pk(scheme, serialised_pk, params) ==
    IF /\ serialised_pk.kind = "pk"
       /\ serialised_pk.curve = Curve(scheme)
       /\ KeyFits(serialised_pk, params)
    THEN Ok([kind |-> "ProvingKey", settings |-> serialised_pk.settings,
             read_as |-> scheme])
    ELSE Err("PfsysError::LoadPk", "failed to read proving key")

\* ProvingKey::get_vk
get_vk(pk) ==
    [kind |-> "VerifyingKey", settings |-> pk.settings, read_as |-> pk.read_as]

\* tests/integration_test.rs setup_keys: the keys made for a circuit from an
\* SRS, under the circuit's own scheme and logrows
setup_keys(compiled_circuit, serialized_srs) ==
    LET st == compiled_circuit.settings
        params == deserialize_params_prover(st.commitment, serialized_srs,
                                            st.logrows)
    IN  IF ~params.ok THEN params
        ELSE IF params.val.k < st.logrows
             THEN Err("PlonkError", "not enough rows available")
             ELSE Ok([vk |-> VkBytes(st), pk |-> PkBytes(st)])

(***************************************************************************)
(* Error boundary.                                                         *)
(***************************************************************************)
\* Display of the inner error: e.to_string()
ErrorText(e) == e.variant \o ": " \o e.msg

\* the variants of the boundary error type EZKLError
BoundaryVariants == {"InternalError", "InvalidInput"}

\* a plausible slip: the collaborator's message dropped at the boundary
ExternalError_nomsg(e) == [variant |-> "InternalError", msg |-> ""]

\* lib.rs / error.rs From<InnerEZKLError> for EZKLError (and From<GraphError>)
ExternalError(e) == [variant |-> "InternalError", msg |-> ErrorText(e)]

\* .map_err(|e| e.into()) on a result of the inner error type
MapErrInto(res) ==
    IF res.ok THEN res ELSE [ok |-> FALSE, err |-> ExternalError(res.err)]

\* what a call reports: its result, the steps it ran in order, and what it
\* handed to the library (obs)
Outcome(res, steps, obs) == [res |-> res, steps |-> steps, obs |-> obs]
NoObs == [kind |-> "none"]

(***************************************************************************)
(* Proving service.                                                        *)
(***************************************************************************)
ProofTypes == {"Single", "ForAggr"}
CheckModes == {"SAFE", "UNSAFE"}

\* prove.rs From<ProofTypeWrapper> for ProofType
ProofTypeFromWrapper(pt) ==
    IF pt = "Single" THEN "Single" ELSE "ForAggr"

\* prove.rs From<CheckModeWrapper> for CheckMode
CheckModeFromWrapper(cm) ==
    IF cm = "SAFE" THEN "SAFE" ELSE "UNSAFE"

\* a plausible slip: every proof type mapped to the single strategy
StrategyOf_single(proof_type) == "Single"

\* let strategy: StrategyType = proof_type.into()
StrategyOf(proof_type) ==
    IF proof_type = "Single" THEN "Single" ELSE "Accum"

\* a plausible slip: every proof type tagged with the EVM transcript
TranscriptOf_evm(proof_type) == "EVM"

\* let transcript: TranscriptType = proof_type.into()
TranscriptOf(proof_type) ==
    IF proof_type = "Single" THEN "EVM" ELSE "Poseidon"

\* the transcript kind a transcript implementation reads and writes
TranscriptKind(impl) ==
    IF impl = "EvmTranscript" THEN "EVM" ELSE "Poseidon"

\* the commitment scheme a type of the proving system is defined for
SchemeOfType(t) ==
    IF t \in {"KZGCommitmentScheme", "ProverSHPLONK", "VerifierSHPLONK",
              "KZGSingleStrategy", "KZGAccumulatorStrategy", "Config::kzg"}
    THEN "KZG" ELSE "IPA"

\* GraphCircuit::load_graph_witness: the witness binds to a circuit of its shape
load_graph_witness(circuit, data) ==
    IF data.shape = circuit.settings.shape THEN Ok(circuit)
    ELSE Err("GraphError", "witness does not match the circuit")

\* GraphCircuit::prepare_public_inputs: one instance value per instance column;
\* a circuit of shape s has s of them
prepare_public_inputs(circuit, data) ==
    Ok([i \in 1..circuit.settings.shape |-> data.x * data.x + i])

\* GraphCircuit::pretty_public_inputs: the rendering of the same values
pretty_public_inputs(circuit, data) ==
    Ok([kind |-> "PrettyElements",
        rendered |-> [i \in 1..circuit.settings.shape |-> data.x * data.x + i]])

\* let proof_split_commits: Option<ProofSplitCommit> = data.into()
SplitCommits(data) ==
    IF data.polycommit = "none" THEN None
    ELSE [kind |-> "ProofSplitCommit", scheme |-> data.polycommit]

\* a plausible slip: the instance count left at its default, no instances
KzgConfig_noinstances(public_inputs) ==
    [config |-> "Config::kzg", num_instance |-> <<0>>]

\* Config::kzg().with_num_instance(vec![public_inputs.len()])
KzgConfig(public_inputs) ==
    [config |-> "Config::kzg", num_instance |-> <<Len(public_inputs)>>]

\* Config::ipa().with_num_instance(vec![public_inputs.len()])
IpaConfig(public_inputs) ==
    [config |-> "Config::ipa", num_instance |-> <<Len(public_inputs)>>]

\* snark_verifier compile(params, vk, config): the protocol of the verifying
\* key's circuit over these parameters
compile(params, vk, config) ==
    [kind |-> "PlonkProtocol", config |-> config.config,
     num_instance |-> config.num_instance, k |-> params.k, vk |-> vk]

\* ezkl::pfsys::create_proof_circuit::<Scheme, C, P, V, Strategy, E, TW, TR>:
\* the proof is written by prover P through transcript TW; the snark records
\* the transcript tag it was handed.  In SAFE mode the proof is checked right
\* after creation and an unsound one is an error.
create_proof_circuit(types, circuit, instances, params, pk, check_mode, commitment, transcript, split_commits, protocol) ==
    LET sound == /\ pk.settings = circuit.settings
                 /\ params.scheme = SchemeOfType(types.scheme)
                 /\ SchemeOfType(types.scheme) = circuit.settings.commitment
        proof == [scheme |-> SchemeOfType(types.scheme),
                  transcript |-> TranscriptKind(types.tw),
                  settings |-> circuit.settings,
                  instances |-> instances,
                  sound |-> sound,
                  intact |-> TRUE]
    IN  IF params.k < circuit.settings.logrows
        THEN Err("PlonkError", "not enough rows available")
        ELSE IF check_mode = "SAFE" /\ ~sound
        THEN Err("PlonkError", "constraint system failure")
        ELSE Ok([kind |-> "Snark",
                 proof |-> proof,
                 instances |-> instances,
                 transcript_type |-> transcript,
                 protocol |-> protocol,
                 split |-> split_commits,
                 commitment |-> commitment,
                 pretty_public_inputs |-> None])

\* the type parameters of one instantiation of create_proof_circuit
Types(scheme, prover, verifier, strategy, tw, tr) ==
    [scheme |-> scheme, prover |-> prover, verifier |-> verifier,
     strategy |-> strategy, tw |-> tw, tr |-> tr]

\* what prove_internal handed to the library in the arm it took
ProveObs(logrows, types, transcript, protocol, check_mode, pk, params) ==
    [kind |-> "prove", params_logrows |-> logrows, types |-> types,
     transcript |-> transcript, protocol |-> protocol,
     check_mode |-> check_mode, pk |-> pk, params |-> params]

\* a plausible slip: the prover parameters decoded before the proving key
prove_kzg_srsfirst(circuit, public_inputs, serialized_pk, serialised_srs, logrows, strategy, check_mode, commitment, transcript, split, steps) ==
    LET params == deserialize_params_prover("KZG", serialised_srs, logrows)
        s1 == Append(steps, "deserialize_params_prover")
        pk == deserialize_pk("KZG", serialized_pk, circuit.settings)
        s2 == Append(s1, "deserialize_pk")
    IN  IF ~params.ok THEN Outcome(params, s1, NoObs)
        ELSE IF ~pk.ok THEN Outcome(pk, s2, NoObs)
        ELSE IF strategy = "Single"
        THEN LET types == Types("KZGCommitmentScheme", "ProverSHPLONK",
                                "VerifierSHPLONK", "KZGSingleStrategy",
                                "EvmTranscript", "EvmTranscript")
             IN  Outcome(
                   create_proof_circuit(types, circuit, <<public_inputs>>,
                       params.val, pk.val, check_mode, commitment, transcript,
                       split, None),
                   Append(s2, "create_proof_circuit"),
                   ProveObs(logrows, types, transcript, None, check_mode,
                            pk.val, params.val))
        ELSE LET protocol == compile(params.val, get_vk(pk.val),
                                     KzgConfig(public_inputs))
                 types == Types("KZGCommitmentScheme", "ProverSHPLONK",
                                "VerifierSHPLONK", "KZGAccumulatorStrategy",
                                "PoseidonTranscript", "PoseidonTranscript")
             IN  Outcome(
                   create_proof_circuit(types, circuit, <<public_inputs>>,
                       params.val, pk.val, check_mode, commitment, transcript,
                       split, protocol),
                   s2 \o <<"compile", "create_proof_circuit">>,
                   ProveObs(logrows, types, transcript, protocol, check_mode,
                            pk.val, params.val))

\* prove.rs prove_internal, the arm Commitments::KZG
prove_kzg(circuit, public_inputs, serialized_pk, serialised_srs, logrows, strategy, check_mode, commitment, transcript, split, steps) ==
    LET pk == deserialize_pk("KZG", serialized_pk, circuit.settings)
        s1 == Append(steps, "deserialize_pk")
        params == deserialize_params_prover("KZG", serialised_srs, logrows)
        s2 == Append(s1, "deserialize_params_prover")
    IN  IF ~pk.ok THEN Outcome(pk, s1, NoObs)
        ELSE IF ~params.ok THEN Outcome(params, s2, NoObs)
        ELSE IF strategy = "Single"
        THEN LET types == Types("KZGCommitmentScheme", "ProverSHPLONK",
                                "VerifierSHPLONK", "KZGSingleStrategy",
                                "EvmTranscript", "EvmTranscript")
             IN  Outcome(
                   create_proof_circuit(types, circuit, <<public_inputs>>,
                       params.val, pk.val, check_mode, commitment, transcript,
                       split, None),
                   Append(s2, "create_proof_circuit"),
                   ProveObs(logrows, types, transcript, None, check_mode,
                            pk.val, params.val))
        ELSE LET protocol == compile(params.val, get_vk(pk.val),
                                     KzgConfig(public_inputs))
                 types == Types("KZGCommitmentScheme", "ProverSHPLONK",
                                "VerifierSHPLONK", "KZGAccumulatorStrategy",
                                "PoseidonTranscript", "PoseidonTranscript")
             IN  Outcome(
                   create_proof_circuit(types, circuit, <<public_inputs>>,
                       params.val, pk.val, check_mode, commitment, transcript,
                       split, protocol),
                   s2 \o <<"compile", "create_proof_circuit">>,
                   ProveObs(logrows, types, transcript, protocol, check_mode,
                            pk.val, params.val))

\* a plausible slip: the IPA arm a copy of the KZG arm
prove_ipa_as_kzg(circuit, public_inputs, serialized_pk, serialised_srs, logrows, strategy, check_mode, commitment, transcript, split, steps) ==
    prove_kzg(circuit, public_inputs, serialized_pk, serialised_srs, logrows,
              strategy, check_mode, commitment, transcript, split, steps)

\* prove.rs prove_internal, the arm Commitments::IPA
prove_ipa(circuit, public_inputs, serialized_pk, serialised_srs, logrows, strategy, check_mode, commitment, transcript, split, steps) ==
    LET pk == deserialize_pk("IPA", serialized_pk, circuit.settings)
        s1 == Append(steps, "deserialize_pk")
        params == deserialize_params_prover("IPA", serialised_srs,
                                            circuit.settings.logrows)
        s2 == Append(s1, "deserialize_params_prover")
    IN  IF ~pk.ok THEN Outcome(pk, s1, NoObs)
        ELSE IF ~params.ok THEN Outcome(params, s2, NoObs)
        ELSE IF strategy = "Single"
        THEN LET types == Types("IPACommitmentScheme", "ProverIPA",
                                "VerifierIPA", "IPASingleStrategy",
                                "EvmTranscript", "EvmTranscript")
             IN  Outcome(
                   create_proof_circuit(types, circuit, <<public_inputs>>,
                       params.val, pk.val, check_mode, commitment, transcript,
                       split, None),
                   Append(s2, "create_proof_circuit"),
                   ProveObs(circuit.settings.logrows, types, transcript, None,
                            check_mode, pk.val, params.val))
        ELSE LET protocol == compile(params.val, get_vk(pk.val),
                                     IpaConfig(public_inputs))
                 types == Types("IPACommitmentScheme", "ProverIPA",
                                "VerifierIPA", "IPAAccumulatorStrategy",
                                "PoseidonTranscript", "PoseidonTranscript")
             IN  Outcome(
                   create_proof_circuit(types, circuit, <<public_inputs>>,
                       params.val, pk.val, check_mode, commitment, transcript,
                       split, protocol),
                   s2 \o <<"compile", "create_proof_circuit">>,
                   ProveObs(circuit.settings.logrows, types, transcript,
                            protocol, check_mode, pk.val, params.val))

\* a plausible slip: the snark returned as proof creation made it
prove_internal_nopretty(witness_json, compiled_circuit, serialized_pk, serialised_srs, proof_type, check_mode) ==
    LET data == from_str("GraphWitness", witness_json)
        decoded == deserialize_circuit(compiled_circuit)
        circuit == load_graph_witness(decoded.val, data.val)
        pretty == pretty_public_inputs(circuit.val, data.val)
        public == prepare_public_inputs(circuit.val, data.val)
        circuit_settings == circuit.val.settings
        strategy == StrategyOf(proof_type)
        transcript == TranscriptOf(proof_type)
        split == SplitCommits(data.val)
        commitment == circuit_settings.commitment
        logrows == circuit_settings.logrows
        s1 == <<"from_str">>
        s2 == Append(s1, "deserialize_circuit")
        s3 == Append(s2, "load_graph_witness")
        s4 == Append(s3, "pretty_public_inputs")
        s5 == Append(s4, "prepare_public_inputs")
        arm == IF commitment = "KZG"
               THEN prove_kzg(circuit.val, public.val, serialized_pk,
                              serialised_srs, logrows, strategy, check_mode,
                              commitment, transcript, split, s5)
               ELSE prove_ipa(circuit.val, public.val, serialized_pk,
                              serialised_srs, logrows, strategy, check_mode,
                              commitment, transcript, split, s5)
    IN  IF ~data.ok THEN Outcome(data, s1, NoObs)
        ELSE IF ~decoded.ok THEN Outcome(decoded, s2, NoObs)
        ELSE IF ~circuit.ok THEN Outcome(circuit, s3, NoObs)
        ELSE IF ~pretty.ok THEN Outcome(pretty, s4, NoObs)
        ELSE IF ~public.ok THEN Outcome(public, s5, NoObs)
        ELSE arm

\* prove.rs prove_internal
prove_internal(witness_json, compiled_circuit, serialized_pk, serialised_srs, proof_type, check_mode) ==
    LET data == from_str("GraphWitness", witness_json)
        decoded == deserialize_circuit(compiled_circuit)
        circuit == load_graph_witness(decoded.val, data.val)
        pretty == pretty_public_inputs(circuit.val, data.val)
        public == prepare_public_inputs(circuit.val, data.val)
        circuit_settings == circuit.val.settings
        strategy == StrategyOf(proof_type)
        transcript == TranscriptOf(proof_type)
        split == SplitCommits(data.val)
        commitment == circuit_settings.commitment
        logrows == circuit_settings.logrows
        s1 == <<"from_str">>
        s2 == Append(s1, "deserialize_circuit")
        s3 == Append(s2, "load_graph_witness")
        s4 == Append(s3, "pretty_public_inputs")
        s5 == Append(s4, "prepare_public_inputs")
        arm == IF commitment = "KZG"
               THEN prove_kzg(circuit.val, public.val, serialized_pk,
                              serialised_srs, logrows, strategy, check_mode,
                              commitment, transcript, split, s5)
               ELSE prove_ipa(circuit.val, public.val, serialized_pk,
                              serialised_srs, logrows, strategy, check_mode,
                              commitment, transcript, split, s5)
    IN  IF ~data.ok THEN Outcome(data, s1, NoObs)
        ELSE IF ~decoded.ok THEN Outcome(decoded, s2, NoObs)
        ELSE IF ~circuit.ok THEN Outcome(circuit, s3, NoObs)
        ELSE IF ~pretty.ok THEN Outcome(pretty, s4, NoObs)
        ELSE IF ~public.ok THEN Outcome(public, s5, NoObs)
        ELSE IF ~arm.res.ok THEN arm
        ELSE Outcome(
               Ok([arm.res.val EXCEPT !.pretty_public_inputs = pretty.val]),
               arm.steps, arm.obs)

\* prove.rs prove_advanced
prove_advanced(witness_json, compiled_circuit, pk, srs, proof_type, check_mode) ==
    LET proof == prove_internal(witness_json, compiled_circuit, pk, srs,
                                ProofTypeFromWrapper(proof_type),
                                CheckModeFromWrapper(check_mode))
    IN  IF proof.res.ok
        THEN Outcome(MapErrInto(to_string(proof.res.val)),
                     Append(proof.steps, "to_string"), proof.obs)
        ELSE Outcome(MapErrInto(proof.res), proof.steps, proof.obs)

\* a plausible slip: the default entry point left in the debugging check mode
prove_unsafe(witness_json, compiled_circuit, pk, srs) ==
    prove_advanced(witness_json, compiled_circuit, pk, srs, "Single", "UNSAFE")

\* prove.rs prove
prove(witness_json, compiled_circuit, pk, srs) ==
    prove_advanced(witness_json, compiled_circuit, pk, srs, "Single", "SAFE")

(***************************************************************************)
(* Witness service.                                                        *)
(***************************************************************************)
\* the input JSON for a circuit shape
InputJson(shape, x) == Json([kind |-> "GraphData", shape |-> shape, x |-> x])

\* GraphCircuit::load_graph_input: the input data must have the circuit's shape
load_graph_input(circuit, data) ==
    IF data.shape = circuit.settings.shape
    THEN Ok([kind |-> "inputs", x |-> data.x])
    ELSE Err("GraphError", "input does not match the circuit")

\* GraphCircuit::forward::<Scheme>: the witness of the circuit on the input;
\* the polynomial commitments of its modules are computed only when the
\* circuit has such a module and both a verifying key and an SRS are given
forward(scheme, circuit, input, vk, srs) ==
    Ok([kind |-> "GraphWitness",
        shape |-> circuit.settings.shape,
        x |-> input.x,
        polycommit |->
            IF /\ RequiresPolycommit(circuit.settings.shape)
               /\ vk.kind # "none"
               /\ srs.kind # "none"
            THEN scheme ELSE "none"])

\* GraphWitness::as_json
as_json(witness) == Ok(Json(witness))

\* what gen_witness_internal handed to forward
WitnessObs(scheme, vk, srs, logrows, warned) ==
    [kind |-> "gen_witness", forward_scheme |-> scheme, vk |-> vk, srs |-> srs,
     params_logrows |-> logrows, warned |-> warned]

\* a plausible slip: the SRS decoded under KZG whatever the circuit declares
gen_witness_forward_kzg(circuit, settings, input, vk, serialised_srs, steps) ==
    IF RequiresPolycommit(settings.shape)
    THEN IF serialised_srs.kind # "none"
         THEN LET srs == deserialize_params_prover("KZG", serialised_srs,
                                                   settings.logrows)
                  s1 == Append(steps, "deserialize_params_prover")
              IN  IF ~srs.ok THEN Outcome(srs, s1, NoObs)
                  ELSE Outcome(
                         forward("KZG", circuit, input, vk, srs.val),
                         Append(s1, "forward"),
                         WitnessObs("KZG", vk, srs.val, settings.logrows,
                                    FALSE))
         ELSE Outcome(forward("KZG", circuit, input, vk, None),
                      Append(steps, "forward"),
                      WitnessObs("KZG", vk, None, 0, TRUE))
    ELSE Outcome(forward("KZG", circuit, input, vk, None),
                 Append(steps, "forward"),
                 WitnessObs("KZG", vk, None, 0, FALSE))

\* a plausible slip: a supplied SRS decoded before looking at the modules
gen_witness_forward_eager(circuit, settings, input, vk, serialised_srs, steps) ==
    IF serialised_srs.kind # "none"
    THEN LET srs == deserialize_params_prover(settings.commitment,
                                              serialised_srs, settings.logrows)
             s1 == Append(steps, "deserialize_params_prover")
         IN  IF ~srs.ok THEN Outcome(srs, s1, NoObs)
             ELSE IF RequiresPolycommit(settings.shape)
             THEN Outcome(
                    forward(settings.commitment, circuit, input, vk, srs.val),
                    Append(s1, "forward"),
                    WitnessObs(settings.commitment, vk, srs.val,
                               settings.logrows, FALSE))
             ELSE Outcome(forward("KZG", circuit, input, vk, None),
                          Append(s1, "forward"),
                          WitnessObs("KZG", vk, None, 0, FALSE))
    ELSE Outcome(forward("KZG", circuit, input, vk, None),
                 Append(steps, "forward"),
                 WitnessObs("KZG", vk, None, 0,
                            RequiresPolycommit(settings.shape)))

\* gen_witness.rs gen_witness_internal, from the forward pass on
gen_witness_forward(circuit, settings, input, vk, serialised_srs, steps) ==
    IF RequiresPolycommit(settings.shape)
    THEN IF serialised_srs.kind # "none"
         THEN IF settings.commitment = "KZG"
              THEN LET srs == deserialize_params_prover("KZG", serialised_srs,
                                                        settings.logrows)
                       s1 == Append(steps, "deserialize_params_prover")
                   IN  IF ~srs.ok THEN Outcome(srs, s1, NoObs)
                       ELSE Outcome(
                              forward("KZG", circuit, input, vk, srs.val),
                              Append(s1, "forward"),
                              WitnessObs("KZG", vk, srs.val, settings.logrows,
                                         FALSE))
              ELSE LET srs == deserialize_params_prover("IPA", serialised_srs,
                                                        settings.logrows)
                       s1 == Append(steps, "deserialize_params_prover")
                   IN  IF ~srs.ok THEN Outcome(srs, s1, NoObs)
                       ELSE Outcome(
                              forward("IPA", circuit, input, vk, srs.val),
                              Append(s1, "forward"),
                              WitnessObs("IPA", vk, srs.val, settings.logrows,
                                         FALSE))
         ELSE Outcome(forward("KZG", circuit, input, vk, None),
                      Append(steps, "forward"),
                      WitnessObs("KZG", vk, None, 0, TRUE))
    ELSE Outcome(forward("KZG", circuit, input, vk, None),
                 Append(steps, "forward"),
                 WitnessObs("KZG", vk, None, 0, FALSE))

\* a plausible slip: the verifying key decoded under the circuit's own scheme
gen_witness_internal_declared(compiled_circuit, input_data, serialised_vk, serialised_srs) ==
    LET circuit == deserialize_circuit(compiled_circuit)
        data == from_str("GraphData", input_data)
        settings == circuit.val.settings
        vk == IF serialised_vk.kind # "none"
              THEN deserialize_vk(settings.commitment, serialised_vk,
                                  settings)
              ELSE Ok(None)
        input == load_graph_input(circuit.val, data.val)
        s1 == <<"deserialize_circuit">>
        s2 == Append(s1, "from_str")
        s3 == IF serialised_vk.kind # "none"
              THEN Append(s2, "deserialize_vk") ELSE s2
        s4 == Append(s3, "load_graph_input")
        fwd == gen_witness_forward(circuit.val, settings, input.val, vk.val,
                                   serialised_srs, s4)
    IN  IF ~circuit.ok THEN Outcome(circuit, s1, NoObs)
        ELSE IF ~data.ok THEN Outcome(data, s2, NoObs)
        ELSE IF ~vk.ok THEN Outcome(vk, s3, NoObs)
        ELSE IF ~input.ok THEN Outcome(input, s4, NoObs)
        ELSE IF ~fwd.res.ok THEN fwd
        ELSE LET shown == as_json(fwd.res.val) IN
             IF ~shown.ok
             THEN Outcome(shown, Append(fwd.steps, "as_json"), fwd.obs)
             ELSE Outcome(fwd.res, Append(fwd.steps, "as_json"), fwd.obs)

\* a plausible slip: a verifying key that fails to decode is dropped and the
\* forward pass run without it
gen_witness_internal_lenient(compiled_circuit, input_data, serialised_vk, serialised_srs) ==
    LET circuit == deserialize_circuit(compiled_circuit)
        data == from_str("GraphData", input_data)
        settings == circuit.val.settings
        vk == IF serialised_vk.kind # "none"
              THEN deserialize_vk("KZG", serialised_vk, settings)
              ELSE Ok(None)
        input == load_graph_input(circuit.val, data.val)
        s1 == <<"deserialize_circuit">>
        s2 == Append(s1, "from_str")
        s3 == IF serialised_vk.kind # "none"
              THEN Append(s2, "deserialize_vk") ELSE s2
        s4 == Append(s3, "load_graph_input")
        fwd == gen_witness_forward(circuit.val, settings, input.val,
                                   IF vk.ok THEN vk.val ELSE None,
                                   serialised_srs, s4)
    IN  IF ~circuit.ok THEN Outcome(circuit, s1, NoObs)
        ELSE IF ~data.ok THEN Outcome(data, s2, NoObs)
        ELSE IF ~input.ok THEN Outcome(input, s4, NoObs)
        ELSE IF ~fwd.res.ok THEN fwd
        ELSE LET shown == as_json(fwd.res.val) IN
             IF ~shown.ok
             THEN Outcome(shown, Append(fwd.steps, "as_json"), fwd.obs)
             ELSE Outcome(fwd.res, Append(fwd.steps, "as_json"), fwd.obs)

\* gen_witness.rs gen_witness_internal
gen_witness_internal(compiled_circuit, input_data, serialised_vk, serialised_srs) ==
    LET circuit == deserialize_circuit(compiled_circuit)
        data == from_str("GraphData", input_data)
        settings == circuit.val.settings
        vk == IF serialised_vk.kind # "none"
              THEN deserialize_vk("KZG", serialised_vk, settings)
              ELSE Ok(None)
        input == load_graph_input(circuit.val, data.val)
        s1 == <<"deserialize_circuit">>
        s2 == Append(s1, "from_str")
        s3 == IF serialised_vk.kind # "none"
              THEN Append(s2, "deserialize_vk") ELSE s2
        s4 == Append(s3, "load_graph_input")
        fwd == gen_witness_forward(circuit.val, settings, input.val, vk.val,
                                   serialised_srs, s4)
    IN  IF ~circuit.ok THEN Outcome(circuit, s1, NoObs)
        ELSE IF ~data.ok THEN Outcome(data, s2, NoObs)
        ELSE IF ~vk.ok THEN Outcome(vk, s3, NoObs)
        ELSE IF ~input.ok THEN Outcome(input, s4, NoObs)
        ELSE IF ~fwd.res.ok THEN fwd
        ELSE LET shown == as_json(fwd.res.val) IN
             IF ~shown.ok
             THEN Outcome(shown, Append(fwd.steps, "as_json"), fwd.obs)
             ELSE Outcome(fwd.res, Append(fwd.steps, "as_json"), fwd.obs)

\* a plausible slip: an empty buffer handed on as an absent one
gen_witness_optional(input_json, compiled_circuit, vk, srs) ==
    LET graph == gen_witness_internal(compiled_circuit, input_json,
                                      IF vk = EmptyBytes THEN None ELSE vk,
                                      IF srs = EmptyBytes THEN None ELSE srs)
    IN  IF ~graph.res.ok
        THEN Outcome(MapErrInto(graph.res), graph.steps, graph.obs)
        ELSE Outcome(MapErrInto(as_json(graph.res.val)),
                     Append(graph.steps, "as_json"), graph.obs)

\* gen_witness.rs gen_witness
gen_witness(input_json, compiled_circuit, vk, srs) ==
    LET graph == gen_witness_internal(compiled_circuit, input_json, vk, srs)
    IN  IF ~graph.res.ok
        THEN Outcome(MapErrInto(graph.res), graph.steps, graph.obs)
        ELSE Outcome(MapErrInto(as_json(graph.res.val)),
                     Append(graph.steps, "as_json"), graph.obs)

\* Instant::now() before the forward pass and start_time.elapsed() after it
Elapsed == 1..MaxElapsed

\* trace!("witness generation {:?} took {:?}", .., start_time.elapsed())
witness_trace(steps, elapsed) ==
    IF \E i \in 1..Len(steps) : steps[i] = "forward"
    THEN <<[level |-> "trace", took |-> elapsed]>>
    ELSE <<>>

\* a plausible slip: the time taken written into the witness
gen_witness_internal_run_stamped(compiled_circuit, input_data, serialised_vk, serialised_srs, elapsed) ==
    LET out == gen_witness_internal(compiled_circuit, input_data,
                                    serialised_vk, serialised_srs)
    IN  [out |-> IF out.res.ok
                 THEN [out EXCEPT !.res.val.x = elapsed]
                 ELSE out,
         log |-> witness_trace(out.steps, elapsed)]

\* one run of gen_witness_internal when the clock reads `elapsed` for the
\* forward pass: what the call reports and the trace line it logs
gen_witness_internal_run(compiled_circuit, input_data, serialised_vk, serialised_srs, elapsed) ==
    LET out == gen_witness_internal(compiled_circuit, input_data,
                                    serialised_vk, serialised_srs)
    IN  [out |-> out, log |-> witness_trace(out.steps, elapsed)]

\* one run of gen_witness when the clock reads `elapsed`
gen_witness_run(input_json, compiled_circuit, vk, srs, elapsed) ==
    LET out == gen_witness(input_json, compiled_circuit, vk, srs)
    IN  [out |-> out, log |-> witness_trace(out.steps, elapsed)]

(***************************************************************************)
(* Verification service.                                                   *)
(***************************************************************************)
\* GraphSettings::load(path)
load_settings(settings_path) ==
    IF settings_path.kind = "json" /\ settings_path.doc.kind = "GraphSettings"
    THEN Ok(settings_path.doc)
    ELSE Err("GraphError", "failed to load settings")

\* Snark::load::<Scheme>(path)
load_snark(proof_path) ==
    IF proof_path.kind = "json" /\ proof_path.doc.kind = "Snark"
    THEN Ok(proof_path.doc)
    ELSE Err("PfsysError::LoadProof", "failed to load proof")

\* ezkl::pfsys::load_vk::<Scheme, C>(path, settings)
load_vk(scheme, vk_path, settings) ==
    IF /\ vk_path.kind = "vk"
       /\ vk_path.curve = Curve(scheme)
       /\ KeyFits(vk_path, settings)
    THEN Ok([kind |-> "VerifyingKey", settings |-> vk_path.settings,
             read_as |-> scheme])
    ELSE Err("PfsysError::LoadVk", "failed to read verifying key")

\* a plausible slip: with both sources given the JSON is used
load_proof_prefer_json(proof_json, proof_path) ==
    IF proof_json.kind # "none"
    THEN from_str("Snark", proof_json)
    ELSE IF proof_path.kind # "none"
    THEN load_snark(proof_path)
    ELSE Err("IoError",
             "Proof must be provided in one of the two ways: json or path")

\* verify.rs: match (proof_json, proof_path) { .. }
load_proof(proof_json, proof_path) ==
    IF proof_json.kind = "none" /\ proof_path.kind # "none"
    THEN load_snark(proof_path)
    ELSE IF proof_json.kind # "none" /\ proof_path.kind = "none"
    THEN from_str("Snark", proof_json)
    ELSE Err("IoError",
             "Proof must be provided in one of the two ways: json or path")

\* ezkl::pfsys::verify_proof_circuit::<V, Scheme, Strategy, E, TR>: accepts a
\* sound, untampered proof of the verifying key's circuit on the proof's
\* instances, read through the transcript it was written with, under the
\* scheme it was made for; the SHPLONK verifier needs only the first SRS
\* point, the IPA verifier the whole SRS of the circuit's size
verify_proof_circuit(types, proof, params, vk, n) ==
    IF /\ proof.proof.intact
       /\ proof.proof.sound
       /\ proof.proof.scheme = SchemeOfType(types.verifier)
       /\ proof.proof.transcript = TranscriptKind(types.tr)
       /\ proof.proof.settings = vk.settings
       /\ proof.proof.instances = proof.instances
       /\ (SchemeOfType(types.verifier) = "IPA" => 2^(params.k) = n)
    THEN Ok([kind |-> "unit"])
    ELSE Err("PlonkError", "constraint system failure")

\* what verify handed to the library
VerifyObs(types, proof, params, params_logrows, vk, strategy_params, accepted) ==
    [kind |-> "verify", types |-> types, proof |-> proof, params |-> params,
     params_logrows |-> params_logrows, vk |-> vk,
     strategy_params |-> strategy_params, accepted |-> accepted]

\* a plausible slip: a rejected proof is reported as Ok(false)
verify_commitment_false(types, proof_json, proof_path, settings, vk_path, params, params_logrows, logrows, steps) ==
    LET proof == load_proof(proof_json, proof_path)
        s1 == Append(steps, "load_proof")
        vk == load_vk(SchemeOfType(types.scheme), vk_path, settings)
        s2 == s1 \o <<"Strategy::new", "load_vk">>
        result == verify_proof_circuit(types, proof.val, params, vk.val,
                                       2^logrows)
        s3 == Append(s2, "verify_proof_circuit")
    IN  IF ~proof.ok THEN Outcome(proof, s1, NoObs)
        ELSE IF ~vk.ok THEN Outcome(vk, s2, NoObs)
        ELSE Outcome(Ok(result.ok), s3,
                     VerifyObs(types, proof.val, params, params_logrows,
                               vk.val, params, result.ok))

\* a plausible slip: a rejected proof is checked a second time
verify_commitment_retry(types, proof_json, proof_path, settings, vk_path, params, params_logrows, logrows, steps) ==
    LET proof == load_proof(proof_json, proof_path)
        s1 == Append(steps, "load_proof")
        vk == load_vk(SchemeOfType(types.scheme), vk_path, settings)
        s2 == s1 \o <<"Strategy::new", "load_vk">>
        result == verify_proof_circuit(types, proof.val, params, vk.val,
                                       2^logrows)
        s3 == IF result.ok
              THEN Append(s2, "verify_proof_circuit")
              ELSE s2 \o <<"verify_proof_circuit", "verify_proof_circuit">>
    IN  IF ~proof.ok THEN Outcome(proof, s1, NoObs)
        ELSE IF ~vk.ok THEN Outcome(vk, s2, NoObs)
        ELSE Outcome(IF result.ok THEN Ok(TRUE) ELSE result, s3,
                     VerifyObs(types, proof.val, params, params_logrows,
                               vk.val, params, result.ok))

\* verify.rs verify_commitment::<Scheme, V, E, Strategy, TR, C, Params>
verify_commitment(types, proof_json, proof_path, settings, vk_path, params, params_logrows, logrows, steps) ==
    LET proof == load_proof(proof_json, proof_path)
        s1 == Append(steps, "load_proof")
        vk == load_vk(SchemeOfType(types.scheme), vk_path, settings)
        s2 == s1 \o <<"Strategy::new", "load_vk">>
        result == verify_proof_circuit(types, proof.val, params, vk.val,
                                       2^logrows)
        s3 == Append(s2, "verify_proof_circuit")
    IN  IF ~proof.ok THEN Outcome(proof, s1, NoObs)
        ELSE IF ~vk.ok THEN Outcome(vk, s2, NoObs)
        ELSE Outcome(IF result.ok THEN Ok(TRUE) ELSE result, s3,
                     VerifyObs(types, proof.val, params, params_logrows,
                               vk.val, params, result.ok))

\* the type parameters of one instantiation of verify_commitment
VTypes(scheme, verifier, strategy, tr) ==
    [scheme |-> scheme, verifier |-> verifier, strategy |-> strategy,
     tr |-> tr]

\* a plausible slip: the transcript readers of the two arms crossed
verify_kzg_crossed(proof_json, proof_path, circuit_settings, vk_path, srs_path, reduced_srs, logrows, steps) ==
    LET proof == load_proof(proof_json, proof_path)
        s1 == Append(steps, "load_proof")
        params_logrows == IF reduced_srs THEN 1 ELSE logrows
        params == IF reduced_srs
                  THEN load_params_verifier("KZG", srs_path, 1)
                  ELSE load_params_verifier("KZG", srs_path, logrows)
        s2 == Append(s1, "load_params_verifier")
    IN  IF ~proof.ok THEN Outcome(proof, s1, NoObs)
        ELSE IF ~params.ok THEN Outcome(params, s2, NoObs)
        ELSE IF proof.val.transcript_type = "Poseidon"
        THEN verify_commitment(
               VTypes("KZGCommitmentScheme", "VerifierSHPLONK",
                      "KZGSingleStrategy", "EvmTranscript"),
               proof_json, proof_path, circuit_settings, vk_path, params.val,
               params_logrows, logrows, s2)
        ELSE verify_commitment(
               VTypes("KZGCommitmentScheme", "VerifierSHPLONK",
                      "KZGSingleStrategy", "PoseidonTranscript"),
               proof_json, proof_path, circuit_settings, vk_path, params.val,
               params_logrows, logrows, s2)

\* a plausible slip: the verifier parameters loaded before the proof is decoded
verify_kzg_paramsfirst(proof_json, proof_path, circuit_settings, vk_path, srs_path, reduced_srs, logrows, steps) ==
    LET params_logrows == IF reduced_srs THEN 1 ELSE logrows
        params == load_params_verifier("KZG", srs_path, params_logrows)
        s1 == Append(steps, "load_params_verifier")
        proof == load_proof(proof_json, proof_path)
        s2 == Append(s1, "load_proof")
    IN  IF ~params.ok THEN Outcome(params, s1, NoObs)
        ELSE IF ~proof.ok THEN Outcome(proof, s2, NoObs)
        ELSE verify_commitment(
               VTypes("KZGCommitmentScheme", "VerifierSHPLONK",
                      "KZGSingleStrategy",
                      IF proof.val.transcript_type = "EVM"
                      THEN "EvmTranscript" ELSE "PoseidonTranscript"),
               proof_json, proof_path, circuit_settings, vk_path, params.val,
               params_logrows, logrows, s2)

\* verify.rs verify, the arm Commitments::KZG
verify_kzg(proof_json, proof_path, circuit_settings, vk_path, srs_path, reduced_srs, logrows, steps) ==
    LET proof == load_proof(proof_json, proof_path)
        s1 == Append(steps, "load_proof")
        params_logrows == IF reduced_srs THEN 1 ELSE logrows
        params == IF reduced_srs
                  THEN load_params_verifier("KZG", srs_path, 1)
                  ELSE load_params_verifier("KZG", srs_path, logrows)
        s2 == Append(s1, "load_params_verifier")
    IN  IF ~proof.ok THEN Outcome(proof, s1, NoObs)
        ELSE IF ~params.ok THEN Outcome(params, s2, NoObs)
        ELSE IF proof.val.transcript_type = "EVM"
        THEN verify_commitment(
               VTypes("KZGCommitmentScheme", "VerifierSHPLONK",
                      "KZGSingleStrategy", "EvmTranscript"),
               proof_json, proof_path, circuit_settings, vk_path, params.val,
               params_logrows, logrows, s2)
        ELSE verify_commitment(
               VTypes("KZGCommitmentScheme", "VerifierSHPLONK",
                      "KZGSingleStrategy", "PoseidonTranscript"),
               proof_json, proof_path, circuit_settings, vk_path, params.val,
               params_logrows, logrows, s2)

\* a plausible slip: the reduced-SRS shortcut copied into the IPA arm
verify_ipa_reduced(proof_json, proof_path, circuit_settings, vk_path, srs_path, reduced_srs, logrows, steps) ==
    LET proof == load_proof(proof_json, proof_path)
        s1 == Append(steps, "load_proof")
        params_logrows == IF reduced_srs THEN 1 ELSE logrows
        params == load_params_verifier("IPA", srs_path, params_logrows)
        s2 == Append(s1, "load_params_verifier")
    IN  IF ~proof.ok THEN Outcome(proof, s1, NoObs)
        ELSE IF ~params.ok THEN Outcome(params, s2, NoObs)
        ELSE IF proof.val.transcript_type = "EVM"
        THEN verify_commitment(
               VTypes("IPACommitmentScheme", "VerifierIPA",
                      "IPASingleStrategy", "EvmTranscript"),
               proof_json, proof_path, circuit_settings, vk_path, params.val,
               params_logrows, logrows, s2)
        ELSE verify_commitment(
               VTypes("IPACommitmentScheme", "VerifierIPA",
                      "IPASingleStrategy", "PoseidonTranscript"),
               proof_json, proof_path, circuit_settings, vk_path, params.val,
               params_logrows, logrows, s2)

\* a plausible slip: the IPA arm a copy of the KZG arm
verify_ipa_as_kzg(proof_json, proof_path, circuit_settings, vk_path, srs_path, reduced_srs, logrows, steps) ==
    verify_kzg(proof_json, proof_path, circuit_settings, vk_path, srs_path,
               FALSE, logrows, steps)

\* a plausible slip: the IPA arm reads every proof through the Poseidon
\* transcript, whatever its tag
verify_ipa_poseidon(proof_json, proof_path, circuit_settings, vk_path, srs_path, reduced_srs, logrows, steps) ==
    LET proof == load_proof(proof_json, proof_path)
        s1 == Append(steps, "load_proof")
        params == load_params_verifier("IPA", srs_path, logrows)
        s2 == Append(s1, "load_params_verifier")
    IN  IF ~proof.ok THEN Outcome(proof, s1, NoObs)
        ELSE IF ~params.ok THEN Outcome(params, s2, NoObs)
        ELSE verify_commitment(
               VTypes("IPACommitmentScheme", "VerifierIPA",
                      "IPASingleStrategy", "PoseidonTranscript"),
               proof_json, proof_path, circuit_settings, vk_path, params.val,
               logrows, logrows, s2)

\* verify.rs verify, the arm Commitments::IPA
verify_ipa(proof_json, proof_path, circuit_settings, vk_path, srs_path, reduced_srs, logrows, steps) ==
    LET proof == load_proof(proof_json, proof_path)
        s1 == Append(steps, "load_proof")
        params == load_params_verifier("IPA", srs_path, logrows)
        s2 == Append(s1, "load_params_verifier")
    IN  IF ~proof.ok THEN Outcome(proof, s1, NoObs)
        ELSE IF ~params.ok THEN Outcome(params, s2, NoObs)
        ELSE IF proof.val.transcript_type = "EVM"
        THEN verify_commitment(
               VTypes("IPACommitmentScheme", "VerifierIPA",
                      "IPASingleStrategy", "EvmTranscript"),
               proof_json, proof_path, circuit_settings, vk_path, params.val,
               logrows, logrows, s2)
        ELSE verify_commitment(
               VTypes("IPACommitmentScheme", "VerifierIPA",
                      "IPASingleStrategy", "PoseidonTranscript"),
               proof_json, proof_path, circuit_settings, vk_path, params.val,
               logrows, logrows, s2)

\* verify.rs verify
verify(proof_json, proof_path, settings_path, vk_path, srs_path, reduced_srs) ==
    LET circuit_settings == load_settings(settings_path)
        s1 == <<"GraphSettings::load">>
        logrows == circuit_settings.val.logrows
        commitment == circuit_settings.val.commitment
    IN  IF ~circuit_settings.ok THEN Outcome(circuit_settings, s1, NoObs)
        ELSE IF commitment = "KZG"
        THEN verify_kzg(proof_json, proof_path, circuit_settings.val, vk_path,
                        srs_path, reduced_srs, logrows, s1)
        ELSE verify_ipa(proof_json, proof_path, circuit_settings.val, vk_path,
                        srs_path, reduced_srs, logrows, s1)

\* verify.rs verify_wrapper
verify_wrapper(proof_json, settings_path, vk_path, srs_path) ==
    LET v == verify(proof_json, None, settings_path, vk_path, srs_path, FALSE)
    IN  Outcome(MapErrInto(v.res), v.steps, v.obs)

(***************************************************************************)
(* The program: one call at a time.  A caller starts a call from idle, or  *)
(* feeds the output of the call that just returned into the next service   *)
(* (witness -> prove -> verify); Return drops the result.                  *)
(***************************************************************************)
Idle == [op |-> "idle"]

\* a finished call: its operation, its arguments and what it reported
Call(op, args, out) ==
    [op |-> op, args |-> args, res |-> out.res, steps |-> out.steps,
     obs |-> out.obs]

\* a finished witness generation call, with the lines it logged
LoggedCall(op, args, run) ==
    [op |-> op, args |-> args, res |-> run.out.res, steps |-> run.out.steps,
     obs |-> run.out.obs, log |-> run.log]

\* the SRS arguments a caller can hand over
SrsBuffers ==
    {EmptyBytes, GarbageBytes} \cup
    {SrsBytes(l, k) : l \in Schemes, k \in 1..MaxK}

\* the settings of another circuit: of another shape, of the other scheme
OtherShape(st) == [st EXCEPT !.shape = (st.shape % NumShapes) + 1]
OtherScheme(st) ==
    [st EXCEPT !.commitment = IF st.commitment = "KZG" THEN "IPA" ELSE "KZG"]
Variants(st) == {st, OtherShape(st), OtherScheme(st)}

\* the arguments a caller can hand over beside the artifacts of settings st
CircuitArgs(st) == {CircuitBytes(v) : v \in Variants(st)} \cup {GarbageBytes}
VkArgs(st) == {VkBytes(v) : v \in Variants(st)} \cup {GarbageBytes}
PkArgs(st) == {PkBytes(v) : v \in Variants(st)} \cup {GarbageBytes}
InputArgs(st) ==
    {InputJson(v.shape, x) : v \in {st, OtherShape(st)}, x \in InputValues}
    \cup {MalformedJson}
SettingsArgs(st) ==
    {Json(st), Json(OtherScheme(st)), MalformedJson, NoFile}

Init == call = Idle

\* a direct call of deserialize_params_prover
DecodeProverParams ==
    /\ call.op = "idle"
    /\ \E scheme \in Schemes, srs \in SrsBuffers \cup {None},
          logrows \in 1..MaxLogrows :
         call' = [op |-> "deserialize_params_prover",
                  scheme |-> scheme, srs |-> srs, logrows |-> logrows,
                  res |-> deserialize_params_prover(scheme, srs, logrows)]

\* a direct call of deserialize_params_verifier
DecodeVerifierParams ==
    /\ call.op = "idle"
    /\ \E scheme \in Schemes, srs \in SrsBuffers \cup {None},
          logrows \in 1..MaxLogrows :
         call' = [op |-> "deserialize_params_verifier",
                  scheme |-> scheme, srs |-> srs, logrows |-> logrows,
                  res |-> deserialize_params_verifier(scheme, srs, logrows)]

\* a direct call of load_params_verifier
LoadParamsVerifier ==
    /\ call.op = "idle"
    /\ \E scheme \in Schemes, srs \in SrsBuffers \cup {None, NoFile},
          logrows \in 1..MaxLogrows :
         call' = [op |-> "load_params_verifier",
                  scheme |-> scheme, srs |-> srs, logrows |-> logrows,
                  res |-> load_params_verifier(scheme, srs, logrows)]

\* a direct call of deserialize_vk or deserialize_pk: on the bytes of a key
\* made for these settings, for another shape or for the other scheme, on
\* bytes of the other kind of key, on corrupt bytes or on an empty buffer
DecodeKey ==
    /\ call.op = "idle"
    /\ \E scheme \in Schemes, st \in AllSettings :
       \E key \in VkArgs(st) \cup PkArgs(st) \cup {EmptyBytes} :
          \/ call' = [op |-> "deserialize_vk", scheme |-> scheme,
                      key |-> key, params |-> st,
                      res |-> deserialize_vk(scheme, key, st)]
          \/ call' = [op |-> "deserialize_pk", scheme |-> scheme,
                      key |-> key, params |-> st,
                      res |-> deserialize_pk(scheme, key, st)]

\* a call of the exported gen_witness
GenWitness ==
    /\ call.op = "idle"
    /\ \E st \in AllSettings :
       \E circuit \in {CircuitBytes(st), GarbageBytes},
          input \in InputArgs(st),
          vk \in VkArgs(st) \cup {EmptyBytes},
          srs \in SrsBuffers,
          elapsed \in Elapsed :
         call' = LoggedCall("gen_witness",
                            [circuit |-> circuit, input |-> input, vk |-> vk,
                             srs |-> srs],
                            gen_witness_run(input, circuit, vk, srs, elapsed))

\* a call of gen_witness_internal with an absent verifying key or SRS
GenWitnessInternal ==
    /\ call.op = "idle"
    /\ \E st \in AllSettings :
       \E input \in InputArgs(st),
          vk \in {VkBytes(st), GarbageBytes, None},
          srs \in SrsBuffers \cup {None},
          elapsed \in Elapsed :
         /\ vk.kind = "none" \/ srs.kind = "none"
         /\ call' = LoggedCall("gen_witness_internal",
                               [circuit |-> CircuitBytes(st), input |-> input,
                                vk |-> vk, srs |-> srs],
                               gen_witness_internal_run(CircuitBytes(st), input,
                                                        vk, srs, elapsed))

\* the witness JSON a prove call is given, and the settings its other
\* arguments are chosen around: the output of the gen_witness call that just
\* returned, or a malformed text
WitnessSources ==
    IF call.op = "gen_witness" /\ call.res.ok
    THEN {[json |-> call.res.val, st |-> call.args.circuit.settings]}
    ELSE IF call.op = "idle"
    THEN {[json |-> MalformedJson, st |-> st] : st \in AllSettings}
    ELSE {}

\* a call of the exported prove
Prove ==
    \E w \in WitnessSources :
    \E circuit \in CircuitArgs(w.st), pk \in PkArgs(w.st), srs \in SrsBuffers :
       call' = Call("prove",
                    [witness |-> w.json, circuit |-> circuit, pk |-> pk,
                     srs |-> srs, proof_type |-> "Single",
                     check_mode |-> "SAFE"],
                    prove(w.json, circuit, pk, srs))

\* a call of the exported prove_advanced
ProveAdvanced ==
    \E w \in WitnessSources :
    \E circuit \in CircuitArgs(w.st), pk \in PkArgs(w.st), srs \in SrsBuffers,
       proof_type \in ProofTypes, check_mode \in CheckModes :
       call' = Call("prove_advanced",
                    [witness |-> w.json, circuit |-> circuit, pk |-> pk,
                     srs |-> srs, proof_type |-> proof_type,
                     check_mode |-> check_mode],
                    prove_advanced(w.json, circuit, pk, srs, proof_type,
                                   check_mode))

\* the proof JSON in hand after a successful proving call
ProofInHand ==
    /\ call.op \in {"prove", "prove_advanced"}
    /\ call.res.ok

\* somebody flips a byte of the proof bytes inside the proof JSON
TamperProofBytes ==
    /\ ProofInHand
    /\ call' = [op |-> "tampered", args |-> call.args,
                res |-> Ok(Json([call.res.val.doc
                                   EXCEPT !.proof.intact = FALSE])),
                steps |-> call.steps, obs |-> call.obs]

\* somebody rewrites the transcript tag inside the proof JSON
AlterTranscriptTag ==
    /\ ProofInHand
    /\ call' = [op |-> "tampered", args |-> call.args,
                res |-> Ok(Json([call.res.val.doc
                                   EXCEPT !.transcript_type =
                                     IF @ = "EVM" THEN "Poseidon" ELSE "EVM"])),
                steps |-> call.steps, obs |-> call.obs]

\* the proof JSON a verify call is given, and the settings its other
\* arguments are chosen around
ProofSources ==
    IF call.op \in {"prove", "prove_advanced", "tampered"} /\ call.res.ok
    THEN {[json |-> call.res.val, st |-> call.args.circuit.settings]}
    ELSE IF call.op = "idle"
    THEN {[json |-> MalformedJson, st |-> st] : st \in AllSettings}
    ELSE {}

\* a call of the exported verify_wrapper
VerifyWrapper ==
    \E p \in ProofSources :
    \E settings \in SettingsArgs(p.st), vk \in VkArgs(p.st),
       srs \in SrsBuffers \cup {None, NoFile} :
       call' = Call("verify_wrapper",
                    [proof_json |-> p.json, proof_path |-> None,
                     settings |-> settings, vk |-> vk, srs |-> srs,
                     reduced_srs |-> FALSE],
                    verify_wrapper(p.json, settings, vk, srs))

\* a call of verify, with the proof given as JSON, as a file, both or neither
Verify ==
    \E p \in ProofSources :
    \E proof_json \in {p.json, None}, proof_path \in {p.json, None},
       settings \in {Json(p.st), MalformedJson},
       vk \in {VkBytes(p.st), GarbageBytes},
       srs \in SrsBuffers \cup {None},
       reduced_srs \in BOOLEAN :
       call' = Call("verify",
                    [proof_json |-> proof_json, proof_path |-> proof_path,
                     settings |-> settings, vk |-> vk, srs |-> srs,
                     reduced_srs |-> reduced_srs],
                    verify(proof_json, proof_path, settings, vk, srs,
                           reduced_srs))

\* a valid circuit with an input for it, an SRS in the circuit's scheme with
\* room for its rows, and the keys setup_keys makes for it from that SRS
Fixture(st, x, k) ==
    LET circuit == CircuitBytes(st)
        srs == SrsBytes(st.commitment, k)
        keys == setup_keys(circuit, srs)
    IN  [circuit |-> circuit, input |-> InputJson(st.shape, x), srs |-> srs,
         settings |-> Json(st), keys |-> keys]

Fixtures ==
    {f \in {Fixture(st, x, k) : st \in AllSettings, x \in InputValues,
                                k \in 1..MaxK} : f.keys.ok}

\* two independent callers, each on a thread of its own
Callers == {"caller1", "caller2"}

\* the process-wide state of the library: the crate declares no static item,
\* so nothing is kept here between or across calls
NoStatics == [srs |-> None]

\* a plausible slip: the SRS of the first call kept in a process-wide cache
\* and used by the calls that come after it
TakeInputs_cached(args, statics) ==
    IF statics.srs.kind = "none"
    THEN [inputs |-> args, statics |-> [srs |-> args.srs]]
    ELSE [inputs |-> [args EXCEPT !.srs = statics.srs], statics |-> statics]

\* a call takes its arguments, which it owns (Vec<u8> and String passed by
\* value), and leaves the process-wide state as it found it
TakeInputs(args, statics) == [inputs |-> args, statics |-> statics]

\* an exported service run to completion on the inputs it holds
RunService(op, inputs) ==
    IF op = "gen_witness"
    THEN gen_witness(inputs.input, inputs.circuit, inputs.vk, inputs.srs).res
    ELSE IF op = "prove"
    THEN prove(inputs.witness, inputs.circuit, inputs.pk, inputs.srs).res
    ELSE verify_wrapper(inputs.proof_json, inputs.settings, inputs.vk,
                        inputs.srs).res

\* the calls made concurrently: each stage of the end-to-end test on the
\* artifacts of one circuit, with the largest SRS
ConcurrentCalls ==
    LET fs == {Fixture(st, x, MaxK) : st \in AllSettings, x \in InputValues}
    IN  {[op |-> "gen_witness",
          args |-> [input |-> f.input, circuit |-> f.circuit,
                    vk |-> f.keys.val.vk, srs |-> f.srs]] : f \in fs}
        \cup
        {[op |-> "prove",
          args |-> [witness |-> gen_witness(f.input, f.circuit, f.keys.val.vk,
                                            f.srs).res.val,
                    circuit |-> f.circuit, pk |-> f.keys.val.pk,
                    srs |-> f.srs]] : f \in fs}
        \cup
        {[op |-> "verify_wrapper",
          args |-> [proof_json |->
                      prove(gen_witness(f.input, f.circuit, f.keys.val.vk,
                                        f.srs).res.val,
                            f.circuit, f.keys.val.pk, f.srs).res.val,
                    settings |-> f.settings, vk |-> f.keys.val.vk,
                    srs |-> f.srs]] : f \in fs}

\* the callers call at the same time, each with arguments of its own
StartConcurrent ==
    /\ call.op = "idle"
    /\ \E made \in [Callers -> ConcurrentCalls] :
         call' = [op |-> "concurrent",
                  threads |-> [c \in Callers |->
                                 [op |-> made[c].op, args |-> made[c].args,
                                  pc |-> "called", inputs |-> None,
                                  res |-> None]],
                  statics |-> NoStatics]

\* one thread enters its call and takes its inputs
BeginCall ==
    /\ call.op = "concurrent"
    /\ \E c \in Callers :
         /\ call.threads[c].pc = "called"
         /\ LET taken == TakeInputs(call.threads[c].args, call.statics)
            IN  call' = [call EXCEPT
                           !.threads[c].pc = "running",
                           !.threads[c].inputs = taken.inputs,
                           !.statics = taken.statics]

\* one thread runs its call to the end and returns
FinishCall ==
    /\ call.op = "concurrent"
    /\ \E c \in Callers :
         /\ call.threads[c].pc = "running"
         /\ call' = [call EXCEPT
                        !.threads[c].pc = "done",
                        !.threads[c].res =
                          RunService(call.threads[c].op,
                                     call.threads[c].inputs)]

\* the caller takes the result; the next call starts from idle
Return ==
    /\ call.op # "idle"
    /\ call' = Idle

Next ==
    \/ DecodeProverParams
    \/ DecodeVerifierParams
    \/ LoadParamsVerifier
    \/ DecodeKey
    \/ GenWitness
    \/ GenWitnessInternal
    \/ Prove
    \/ ProveAdvanced
    \/ TamperProofBytes
    \/ AlterTranscriptTag
    \/ VerifyWrapper
    \/ Verify
    \/ StartConcurrent
    \/ BeginCall
    \/ FinishCall
    \/ Return

Spec == Init /\ [][Next]_vars

(***************************************************************************)
(* Parameter codec: claims.                                                *)
(***************************************************************************)
\* the call decoded a well-formed SRS in the layout of the requested scheme
WellFormedSrsCall ==
    /\ call.op \in {"deserialize_params_prover", "deserialize_params_verifier",
                    "load_params_verifier"}
    /\ call.srs.kind = "srs"
    /\ call.srs.layout = call.scheme

\* the outcome classes of parameter decoding
OutcomeClass(res) ==
    IF res.ok THEN "success"
    ELSE IF res.err.variant = "IoError" THEN "missing-input"
    ELSE "read-error"

\* C3: decoding prover parameters from an SRS whose capacity k is below the
\* requested logrows fails with an InsufficientCapacity error and never
\* returns parameters.
C3_UndersizeRejected ==
    (/\ call.op = "deserialize_params_prover"
     /\ WellFormedSrsCall
     /\ call.srs.k < call.logrows)
    => (/\ ~call.res.ok
        /\ call.res.err.variant = "InsufficientCapacity")

\* C4: decoding prover parameters from a well-formed SRS of capacity
\* k >= logrows succeeds with capacity exactly logrows; the parameters are
\* downsized when k > logrows and returned as read when k = logrows.
C4_Downsizing ==
    (/\ call.op = "deserialize_params_prover"
     /\ WellFormedSrsCall
     /\ call.srs.k >= call.logrows)
    => (/\ call.res.ok
        /\ call.res.val.k = call.logrows
        /\ call.res.val.scheme = call.scheme
        /\ (call.res.val.downsized <=> call.srs.k > call.logrows)
        /\ (call.srs.k = call.logrows
            => call.res.val = ParamsRead(call.scheme, call.srs).val))

\* an SRS of larger capacity was decoded and downsized to logrows
C4_Witness ==
    /\ call.op = "deserialize_params_prover"
    /\ WellFormedSrsCall
    /\ call.srs.k > call.logrows
    /\ call.res.ok
    /\ call.res.val.downsized
    /\ call.res.val.k = call.logrows

\* C5: decoding prover parameters fails with the missing-input error, which
\* is not the error of an unrecognised layout, both for an absent SRS and
\* for an empty SRS buffer.
C5_MissingInput ==
    (/\ call.op = "deserialize_params_prover"
     /\ call.srs.kind \in {"none", "empty"})
    => (/\ ~call.res.ok
        /\ OutcomeClass(call.res) = "missing-input"
        /\ OutcomeClass(call.res) #
             OutcomeClass(deserialize_params_prover(call.scheme, GarbageBytes,
                                                    call.logrows)))

SameDecoding(a, b) ==
    /\ OutcomeClass(a) = OutcomeClass(b)
    /\ a.ok => (/\ a.val.k = b.val.k
                /\ a.val.scheme = b.val.scheme
                /\ a.val.downsized = b.val.downsized)

\* C6: on the same SRS input and logrows the verifier-side decoders end in
\* the same outcome class as the prover-side decoder and, on success, give
\* parameters of the same scheme and capacity by the same truncation rule.
C6_VerifierMirrorsProver ==
    /\ (call.op = "deserialize_params_prover"
        => /\ SameDecoding(call.res,
                deserialize_params_verifier(call.scheme, call.srs, call.logrows))
           /\ SameDecoding(call.res,
                load_params_verifier(call.scheme, call.srs, call.logrows)))
    /\ (call.op = "deserialize_params_verifier"
        => SameDecoding(call.res,
             deserialize_params_prover(call.scheme, call.srs, call.logrows)))
    /\ (call.op = "load_params_verifier" /\ call.srs.kind # "nofile"
        => SameDecoding(call.res,
             deserialize_params_prover(call.scheme, call.srs, call.logrows)))

\* the verifier decoder downsized an SRS of larger capacity
C6_Witness ==
    /\ call.op = "deserialize_params_verifier"
    /\ WellFormedSrsCall
    /\ call.srs.k > call.logrows
    /\ call.res.ok
    /\ call.res.val.downsized
    /\ call.res.val.k = call.logrows

(***************************************************************************)
(* Services: claims.                                                       *)
(***************************************************************************)
\* the three calls of the round trip on a fixture
RoundTripWitness(f) ==
    gen_witness(f.input, f.circuit, f.keys.val.vk, f.srs)
RoundTripProof(f) ==
    prove(RoundTripWitness(f).res.val, f.circuit, f.keys.val.pk, f.srs)

\* C1: on a valid circuit and input with matching keys and SRS, gen_witness
\* succeeds, prove on its output succeeds, and verify_wrapper on that proof
\* with the circuit's settings, the verifying key and the same SRS returns
\* true.
C1_RoundTrip ==
    \A f \in Fixtures :
      /\ (/\ call.op = "gen_witness"
          /\ call.args = [circuit |-> f.circuit, input |-> f.input,
                          vk |-> f.keys.val.vk, srs |-> f.srs])
         => call.res.ok
      /\ (/\ call.op = "prove"
          /\ call.args.circuit = f.circuit
          /\ call.args.pk = f.keys.val.pk
          /\ call.args.srs = f.srs
          /\ call.args.witness = RoundTripWitness(f).res.val)
         => call.res.ok
      /\ (/\ call.op = "verify_wrapper"
          /\ call.args.settings = f.settings
          /\ call.args.vk = f.keys.val.vk
          /\ call.args.srs = f.srs
          /\ call.args.proof_json = RoundTripProof(f).res.val)
         => (call.res.ok /\ call.res.val = TRUE)

\* the last call of a round trip returned true
C1_Witness ==
    /\ call.op = "verify_wrapper"
    /\ \E f \in Fixtures :
         /\ call.args.settings = f.settings
         /\ call.args.vk = f.keys.val.vk
         /\ call.args.srs = f.srs
         /\ call.args.proof_json = RoundTripProof(f).res.val
    /\ call.res.ok
    /\ call.res.val = TRUE

\* the proof a verification call was given has its proof bytes tampered with
TamperedProofGiven ==
    /\ call.args.proof_json.kind = "json"
    /\ call.args.proof_json.doc.kind = "Snark"
    /\ ~call.args.proof_json.doc.proof.intact

\* C2: verify returns Ok(true) only when the underlying proof check accepted;
\* a rejection (a tampered proof among them) and a decode failure are errors,
\* and Ok(false) is never returned.
C2_NeverFalse ==
    call.op \in {"verify", "verify_wrapper"}
    => /\ call.res.ok
          => (/\ call.res.val = TRUE
              /\ call.obs.kind = "verify"
              /\ call.obs.accepted)
       /\ (call.obs.kind = "verify" /\ ~call.obs.accepted) => ~call.res.ok
       /\ call.obs.kind # "verify" => ~call.res.ok
       /\ TamperedProofGiven => ~call.res.ok

\* a tampered proof reached the proof check and was rejected with an error
C2_Witness ==
    /\ call.op = "verify_wrapper"
    /\ TamperedProofGiven
    /\ call.obs.kind = "verify"
    /\ ~call.obs.accepted
    /\ ~call.res.ok
    /\ call.res.err.variant = "InternalError"

\* a proving call that reached proof creation
ProofCreationReached ==
    /\ call.op \in {"prove", "prove_advanced"}
    /\ call.obs.kind = "prove"

\* the snark a successful proving call returned
ReturnedSnark == call.res.val.doc

\* the dispatch table of the proving service
DispatchTable(scheme, proof_type) ==
    IF scheme = "KZG" /\ proof_type = "Single"
    THEN Types("KZGCommitmentScheme", "ProverSHPLONK", "VerifierSHPLONK",
               "KZGSingleStrategy", "EvmTranscript", "EvmTranscript")
    ELSE IF scheme = "KZG" /\ proof_type = "ForAggr"
    THEN Types("KZGCommitmentScheme", "ProverSHPLONK", "VerifierSHPLONK",
               "KZGAccumulatorStrategy", "PoseidonTranscript",
               "PoseidonTranscript")
    ELSE IF scheme = "IPA" /\ proof_type = "Single"
    THEN Types("IPACommitmentScheme", "ProverIPA", "VerifierIPA",
               "IPASingleStrategy", "EvmTranscript", "EvmTranscript")
    ELSE Types("IPACommitmentScheme", "ProverIPA", "VerifierIPA",
               "IPAAccumulatorStrategy", "PoseidonTranscript",
               "PoseidonTranscript")

\* C7: for the scheme the circuit declares and the strategy requested,
\* prove_internal instantiates exactly the pipeline of the dispatch table.
C7_DispatchTable ==
    ProofCreationReached
    => call.obs.types = DispatchTable(call.args.circuit.settings.commitment,
                                      call.args.proof_type)

\* an IPA circuit was proved for aggregation through the IPA accumulator
\* pipeline
C7_Witness ==
    /\ ProofCreationReached
    /\ call.res.ok
    /\ call.args.circuit.settings.commitment = "IPA"
    /\ call.args.proof_type = "ForAggr"
    /\ call.obs.types.strategy = "IPAAccumulatorStrategy"

\* C8: the transcript tag handed to proof creation is the kind of the
\* transcript the pipeline instantiates, Poseidon exactly for ForAggregation
\* and EVM exactly for Single, and the returned proof carries that tag.
C8_TranscriptRecorded ==
    ProofCreationReached
    => /\ call.obs.transcript = TranscriptKind(call.obs.types.tw)
       /\ call.obs.transcript = TranscriptKind(call.obs.types.tr)
       /\ (call.obs.transcript = "Poseidon"
           <=> call.args.proof_type = "ForAggr")
       /\ (call.obs.transcript = "EVM" <=> call.args.proof_type = "Single")
       /\ call.res.ok
          => (/\ ReturnedSnark.transcript_type = call.obs.transcript
              /\ ReturnedSnark.proof.transcript = call.obs.transcript)

\* a proof for aggregation was returned with the Poseidon tag
C8_Witness ==
    /\ ProofCreationReached
    /\ call.res.ok
    /\ call.args.proof_type = "ForAggr"
    /\ ReturnedSnark.transcript_type = "Poseidon"
    /\ call.obs.types.tw = "PoseidonTranscript"

\* C9: a protocol is compiled and handed to proof creation exactly for
\* ForAggregation: from the decoded prover parameters and the proving key's
\* verifying key, with the number of public inputs as instance count, in the
\* KZG configuration for KZG circuits and the IPA one for IPA circuits.
C9_ProtocolIffAggregation ==
    ProofCreationReached
    => /\ (call.obs.protocol.kind # "none"
           <=> call.args.proof_type = "ForAggr")
       /\ ("compile" \in {call.steps[i] : i \in 1..Len(call.steps)}
           <=> call.args.proof_type = "ForAggr")
       /\ call.args.proof_type = "ForAggr"
          => (/\ call.obs.protocol.k = call.obs.params.k
              /\ call.obs.protocol.vk = get_vk(call.obs.pk)
              /\ call.obs.protocol.num_instance =
                   <<call.args.circuit.settings.shape>>
              /\ call.obs.protocol.config =
                   (IF call.args.circuit.settings.commitment = "KZG"
                    THEN "Config::kzg" ELSE "Config::ipa"))
       /\ call.res.ok
          => (/\ ReturnedSnark.protocol = call.obs.protocol
              /\ call.args.proof_type = "ForAggr"
                 => call.obs.protocol.num_instance =
                      <<Len(ReturnedSnark.instances[1])>>)

\* a KZG proof for aggregation was returned with its compiled protocol
C9_Witness ==
    /\ ProofCreationReached
    /\ call.res.ok
    /\ call.args.proof_type = "ForAggr"
    /\ call.args.circuit.settings.commitment = "KZG"
    /\ call.args.circuit.settings.shape = 2
    /\ ReturnedSnark.protocol.kind = "PlonkProtocol"
    /\ ReturnedSnark.protocol.num_instance = <<2>>

\* C10: in one proving call the proving key, the prover parameters, the
\* prover, the verifier and the strategy object are all instantiated under
\* the scheme of the circuit's settings, and the parameters are decoded at
\* the circuit's logrows.
C10_SchemeNeverMixed ==
    ProofCreationReached
    => LET scheme == call.args.circuit.settings.commitment IN
       /\ call.obs.pk.read_as = scheme
       /\ call.obs.params.scheme = scheme
       /\ SchemeOfType(call.obs.types.scheme) = scheme
       /\ SchemeOfType(call.obs.types.prover) = scheme
       /\ SchemeOfType(call.obs.types.verifier) = scheme
       /\ SchemeOfType(call.obs.types.strategy) = scheme
       /\ call.obs.protocol.kind # "none"
          => SchemeOfType(call.obs.protocol.config) = scheme
       /\ call.obs.params_logrows = call.args.circuit.settings.logrows
       /\ call.obs.params.k <= call.args.circuit.settings.logrows

\* an IPA circuit was proved from an SRS larger than it needs
C10_Witness ==
    /\ ProofCreationReached
    /\ call.res.ok
    /\ call.args.circuit.settings.commitment = "IPA"
    /\ call.args.srs.k > call.args.circuit.settings.logrows
    /\ call.obs.params.scheme = "IPA"
    /\ call.obs.params.k = call.args.circuit.settings.logrows

(***************************************************************************)
(* Entry points and dispatch: claims.                                      *)
(***************************************************************************)
\* what prove_advanced reports on the arguments of the call that returned
AdvancedOnSameArgs(proof_type, check_mode) ==
    prove_advanced(call.args.witness, call.args.circuit, call.args.pk,
                   call.args.srs, proof_type, check_mode)

\* C11: prove returns exactly what prove_advanced returns for Single and SAFE
\* on the same arguments; a call of prove never reaches proof creation in the
\* UNSAFE check mode or with the aggregation strategy.
C11_DefaultIsSafeSingle ==
    call.op = "prove"
    => /\ call.res = AdvancedOnSameArgs("Single", "SAFE").res
       /\ call.steps = AdvancedOnSameArgs("Single", "SAFE").steps
       /\ call.obs = AdvancedOnSameArgs("Single", "SAFE").obs
       /\ call.obs.kind = "prove"
          => (/\ call.obs.check_mode = "SAFE"
              /\ call.obs.types.strategy \in
                   {"KZGSingleStrategy", "IPASingleStrategy"}
              /\ call.obs.protocol.kind = "none")

\* prove refused, by the SAFE check, a proof that the same arguments yield
\* under UNSAFE
C11_Witness ==
    /\ call.op = "prove"
    /\ call.obs.kind = "prove"
    /\ call.obs.check_mode = "SAFE"
    /\ ~call.res.ok
    /\ AdvancedOnSameArgs("Single", "UNSAFE").res.ok

\* a verification call that got as far as verify_commitment's proof check
ProofCheckReached ==
    /\ call.op \in {"verify", "verify_wrapper"}
    /\ call.obs.kind = "verify"

\* the settings a verification call loaded
LoadedSettings == call.args.settings.doc

\* C12: verifier parameters are decoded at capacity 1 only when the settings
\* declare KZG and reduced_srs is set; for IPA they are decoded at the
\* settings' logrows whatever reduced_srs is; verify_wrapper always passes
\* reduced_srs = false.
C12_ReducedSrsOnlyKzg ==
    /\ ProofCheckReached
       => /\ call.obs.params_logrows =
               (IF LoadedSettings.commitment = "KZG" /\ call.args.reduced_srs
                THEN 1 ELSE LoadedSettings.logrows)
          /\ call.obs.params =
               load_params_verifier(LoadedSettings.commitment, call.args.srs,
                                    call.obs.params_logrows).val
          /\ LoadedSettings.commitment = "IPA"
             => call.obs.params_logrows = LoadedSettings.logrows
    /\ call.op = "verify_wrapper"
       => /\ call.res =
               MapErrInto(verify(call.args.proof_json, None,
                                 call.args.settings, call.args.vk,
                                 call.args.srs, FALSE).res)
          /\ call.obs.kind = "verify"
             => call.obs.params_logrows = LoadedSettings.logrows

\* an IPA proof of a two-row circuit was verified with reduced_srs set, on
\* parameters of the settings' full logrows
C12_Witness ==
    /\ ProofCheckReached
    /\ call.op = "verify"
    /\ call.args.reduced_srs
    /\ LoadedSettings.commitment = "IPA"
    /\ LoadedSettings.logrows = MaxLogrows
    /\ call.obs.params.k = MaxLogrows
    /\ call.res.ok

\* the dispatch table of the verification service
VerifyDispatchTable(scheme, transcript_type) ==
    IF scheme = "KZG" /\ transcript_type = "EVM"
    THEN VTypes("KZGCommitmentScheme", "VerifierSHPLONK", "KZGSingleStrategy",
                "EvmTranscript")
    ELSE IF scheme = "KZG"
    THEN VTypes("KZGCommitmentScheme", "VerifierSHPLONK", "KZGSingleStrategy",
                "PoseidonTranscript")
    ELSE IF transcript_type = "EVM"
    THEN VTypes("IPACommitmentScheme", "VerifierIPA", "IPASingleStrategy",
                "EvmTranscript")
    ELSE VTypes("IPACommitmentScheme", "VerifierIPA", "IPASingleStrategy",
                "PoseidonTranscript")

\* C13: the verifier pipeline is fixed by the commitment scheme of the
\* settings and the transcript tag of the proof; each of the four uses the
\* scheme's single-proof strategy (SHPLONK verifier for KZG, IPA verifier for
\* IPA), and verification never compiles an aggregation protocol.
C13_VerifyDispatch ==
    /\ ProofCheckReached
       => /\ call.obs.types =
               VerifyDispatchTable(LoadedSettings.commitment,
                                   call.obs.proof.transcript_type)
          /\ call.obs.types.strategy \in
               {"KZGSingleStrategy", "IPASingleStrategy"}
    /\ call.op \in {"verify", "verify_wrapper"}
       => \A i \in 1..Len(call.steps) : call.steps[i] # "compile"

\* a proof made for aggregation under IPA was verified by the IPA verifier
\* with the single strategy through the Poseidon transcript
C13_Witness ==
    /\ ProofCheckReached
    /\ LoadedSettings.commitment = "IPA"
    /\ call.obs.proof.transcript_type = "Poseidon"
    /\ call.obs.proof.protocol.kind = "PlonkProtocol"
    /\ call.obs.types.verifier = "VerifierIPA"
    /\ call.obs.types.strategy = "IPASingleStrategy"
    /\ call.obs.types.tr = "PoseidonTranscript"
    /\ call.res.ok

\* a verification call was given a proof made under KZG while the settings
\* it loaded declare IPA
KzgProofUnderIpaSettings ==
    /\ call.op \in {"verify", "verify_wrapper"}
    /\ call.args.proof_json.kind = "json"
    /\ call.args.proof_json.doc.kind = "Snark"
    /\ call.args.proof_json.doc.proof.scheme = "KZG"
    /\ call.args.settings.kind = "json"
    /\ call.args.settings.doc.kind = "GraphSettings"
    /\ call.args.settings.doc.commitment = "IPA"

\* C14: a proof created from a circuit declaring KZG, verified with settings
\* that select the IPA path, fails fast with a decode or shape error, before
\* the proof check is run, and never returns true.
C14_SchemeConsistency ==
    KzgProofUnderIpaSettings
    => /\ ~call.res.ok
       /\ call.obs.kind # "verify"
       /\ \A i \in 1..Len(call.steps) : call.steps[i] # "verify_proof_circuit"

\* the part of the claim the code keeps: such a call never returns true
SchemeMismatchNeverTrue ==
    KzgProofUnderIpaSettings => ~call.res.ok

\* a verification call was given a proof written through the Poseidon
\* transcript whose tag reads EVM
PoseidonProofTaggedEvm ==
    /\ call.op \in {"verify", "verify_wrapper"}
    /\ call.args.proof_json.kind = "json"
    /\ call.args.proof_json.doc.kind = "Snark"
    /\ call.args.proof_json.doc.proof.transcript = "Poseidon"
    /\ call.args.proof_json.doc.transcript_type = "EVM"

\* what verify reports on the arguments of the call that returned
VerifyOnSameArgs ==
    verify(call.args.proof_json, call.args.proof_path, call.args.settings,
           call.args.vk, call.args.srs, call.args.reduced_srs)

\* C15: a proof created under the Poseidon transcript whose tag was changed
\* to EVM is read through the EVM transcript, and verification fails, with
\* the same failure whenever the call is repeated; it never returns true.
C15_TranscriptBinding ==
    PoseidonProofTaggedEvm
    => /\ ~call.res.ok
       /\ call.obs.kind = "verify"
          => (/\ call.obs.types.tr = "EvmTranscript"
              /\ ~call.obs.accepted)
       /\ call.op = "verify" => call.res = VerifyOnSameArgs.res
       /\ call.op = "verify_wrapper"
          => call.res = MapErrInto(VerifyOnSameArgs.res)

\* an otherwise valid IPA proof with its tag altered reached the proof check
\* and was rejected
C15_Witness ==
    /\ PoseidonProofTaggedEvm
    /\ call.op = "verify_wrapper"
    /\ call.obs.kind = "verify"
    /\ call.args.proof_json.doc.proof.scheme = "IPA"
    /\ call.args.proof_json.doc.proof.sound
    /\ call.args.proof_json.doc.proof.intact
    /\ call.args.vk = VkBytes(LoadedSettings)
    /\ call.args.srs = SrsBytes("IPA", LoadedSettings.logrows)
    /\ LoadedSettings = call.args.proof_json.doc.proof.settings
    /\ call.obs.types.tr = "EvmTranscript"
    /\ ~call.res.ok

(***************************************************************************)
(* Witness service: claims.                                                *)
(***************************************************************************)
\* a witness generation call on a circuit that decodes
WitnessCallOnCircuit ==
    /\ call.op \in {"gen_witness", "gen_witness_internal"}
    /\ call.args.circuit.kind = "circuit"

\* the settings of the circuit a witness generation call was given
CircuitSettings == call.args.circuit.settings

\* the steps the call that returned ran, as a set
StepsRun == {call.steps[i] : i \in 1..Len(call.steps)}

\* the prover parameters the call's SRS decodes to under the circuit's
\* scheme and logrows
DeclaredParams ==
    deserialize_params_prover(CircuitSettings.commitment, call.args.srs,
                              CircuitSettings.logrows)

\* C16: when the circuit's modules require a polynomial commitment, a
\* supplied SRS is decoded under the circuit's declared scheme at the
\* circuit's logrows and forward execution receives the parameters; with the
\* SRS absent, forward execution runs without commitment material, a warning
\* is emitted and the call does not fail for lack of an SRS.
C16_PolycommitBranch ==
    (WitnessCallOnCircuit /\ RequiresPolycommit(CircuitSettings.shape))
    => /\ (call.args.srs.kind # "none" /\ call.obs.kind = "gen_witness")
          => (/\ DeclaredParams.ok
              /\ call.obs.srs = DeclaredParams.val
              /\ call.obs.forward_scheme = CircuitSettings.commitment
              /\ call.obs.params_logrows = CircuitSettings.logrows
              /\ ~call.obs.warned)
       /\ (call.args.srs.kind # "none" /\ "load_graph_input" \in StepsRun
           /\ ~DeclaredParams.ok)
          => (/\ ~call.res.ok
              /\ "forward" \notin StepsRun)
       /\ call.args.srs.kind = "none"
          => (/\ "deserialize_params_prover" \notin StepsRun
              /\ call.obs.kind = "gen_witness"
                 => (/\ call.obs.srs = None
                     /\ call.obs.warned
                     /\ call.res.ok)
              /\ ~call.res.ok => "forward" \notin StepsRun)

\* the witness of an IPA circuit with a committing module was made on
\* parameters decoded from the supplied IPA SRS
C16_Witness ==
    /\ WitnessCallOnCircuit
    /\ call.op = "gen_witness"
    /\ RequiresPolycommit(CircuitSettings.shape)
    /\ CircuitSettings.commitment = "IPA"
    /\ call.obs.kind = "gen_witness"
    /\ call.obs.forward_scheme = "IPA"
    /\ call.obs.srs.scheme = "IPA"
    /\ call.res.ok
    /\ call.res.val.doc.polycommit = "IPA"

\* what the same witness generation call reports when given another SRS
WitnessResultWithSrs(srs) ==
    IF call.op = "gen_witness"
    THEN gen_witness(call.args.input, call.args.circuit, call.args.vk, srs).res
    ELSE gen_witness_internal(call.args.circuit, call.args.input,
                              call.args.vk, srs).res

\* C17: when no module requires a polynomial commitment, witness generation
\* never decodes the SRS, forward execution runs without commitment
\* material, and the outcome is the same for every SRS argument (absent,
\* empty, malformed or valid).
C17_NoPolycommitIgnoresSrs ==
    (WitnessCallOnCircuit /\ ~RequiresPolycommit(CircuitSettings.shape))
    => /\ "deserialize_params_prover" \notin StepsRun
       /\ call.obs.kind = "gen_witness"
          => (/\ call.obs.srs = None
              /\ ~call.obs.warned)
       /\ \A srs \in SrsBuffers \cup {None} :
            WitnessResultWithSrs(srs) = call.res

\* a witness was generated for a circuit without a committing module from a
\* call whose SRS argument does not decode
C17_Witness ==
    /\ WitnessCallOnCircuit
    /\ call.op = "gen_witness"
    /\ ~RequiresPolycommit(CircuitSettings.shape)
    /\ call.args.srs = GarbageBytes
    /\ "forward" \in StepsRun
    /\ call.res.ok

\* C18: witness generation decodes a supplied verifying key under the KZG
\* layout for every circuit, circuits declaring IPA included, while proving
\* and verification decode keys under the declared scheme; a verifying key
\* that fails to decode aborts witness generation before input binding and
\* forward execution.
C18_VkDecodedUnderKzg ==
    /\ (/\ WitnessCallOnCircuit
        /\ call.args.vk.kind # "none"
        /\ call.obs.kind = "gen_witness")
       => (/\ "deserialize_vk" \in StepsRun
           /\ call.obs.vk.read_as = "KZG"
           /\ call.obs.vk =
                deserialize_vk("KZG", call.args.vk, CircuitSettings).val)
    /\ ProofCreationReached
       => call.obs.pk.read_as = call.args.circuit.settings.commitment
    /\ ProofCheckReached
       => call.obs.vk.read_as = LoadedSettings.commitment
    /\ (/\ WitnessCallOnCircuit
        /\ call.args.input.doc.kind = "GraphData"
        /\ call.args.vk.kind # "none"
        /\ ~deserialize_vk("KZG", call.args.vk, CircuitSettings).ok)
       => (/\ ~call.res.ok
           /\ call.steps = <<"deserialize_circuit", "from_str",
                             "deserialize_vk">>
           /\ "load_graph_input" \notin StepsRun
           /\ "forward" \notin StepsRun)

\* the witness of a circuit declaring IPA was generated with its verifying
\* key decoded under KZG
C18_Witness ==
    /\ WitnessCallOnCircuit
    /\ CircuitSettings.commitment = "IPA"
    /\ call.args.vk = VkBytes(CircuitSettings)
    /\ call.obs.kind = "gen_witness"
    /\ call.obs.vk.read_as = "KZG"
    /\ call.res.ok

\* what the same witness generation call reports when the clock reads
\* `elapsed`
WitnessResultAt(elapsed) ==
    IF call.op = "gen_witness"
    THEN gen_witness_run(call.args.input, call.args.circuit, call.args.vk,
                         call.args.srs, elapsed).out.res
    ELSE gen_witness_internal_run(call.args.circuit, call.args.input,
                                  call.args.vk, call.args.srs, elapsed).out.res

MalformedJsonParsed ==
    \/ /\ call.op = "gen_witness"
       /\ call.args.circuit.kind = "circuit"
       /\ call.args.input = MalformedJson
    \/ /\ call.op \in {"prove", "prove_advanced"}
       /\ call.args.witness = MalformedJson
    \/ /\ call.op = "verify_wrapper"
       /\ call.args.settings.kind = "json"
       /\ call.args.settings.doc.kind = "GraphSettings"
       /\ call.args.proof_json = MalformedJson

\* C20: malformed caller-supplied JSON (input_json of witness generation,
\* witness_json of proving, the proof JSON of verification) is reported by
\* the public operation as the InvalidInput variant, not as InternalError.
C20_MalformedJsonInvalidInput ==
    MalformedJsonParsed
    => /\ ~call.res.ok
       /\ call.res.err.variant = "InvalidInput"

\* a call of one of the exported operations
PublicCall ==
    call.op \in {"gen_witness", "prove", "prove_advanced", "verify_wrapper"}

\* what the operation under the boundary reports on the same arguments, in
\* the collaborator's error type
InnerResult ==
    IF call.op = "gen_witness"
    THEN gen_witness_internal(call.args.circuit, call.args.input,
                              call.args.vk, call.args.srs).res
    ELSE IF call.op \in {"prove", "prove_advanced"}
    THEN prove_internal(call.args.witness, call.args.circuit, call.args.pk,
                        call.args.srs,
                        ProofTypeFromWrapper(call.args.proof_type),
                        CheckModeFromWrapper(call.args.check_mode)).res
    ELSE verify(call.args.proof_json, None, call.args.settings, call.args.vk,
                call.args.srs, FALSE).res

KeyDecodeCall == call.op \in {"deserialize_vk", "deserialize_pk"}

\* the bytes are those of a key of the decoder's kind
KeyOfDecodersKind ==
    call.key.kind = (IF call.op = "deserialize_vk" THEN "vk" ELSE "pk")

\* what the same decoder returns on corrupt bytes
CorruptKeyResult ==
    IF call.op = "deserialize_vk"
    THEN deserialize_vk(call.scheme, GarbageBytes, call.params)
    ELSE deserialize_pk(call.scheme, GarbageBytes, call.params)

\* C22: decoding a verifying or proving key fails with a decode error on
\* truncated or corrupt bytes and with a separate shape-mismatch error when
\* the key's recorded dimensions disagree with the shape derived from the
\* circuit; a key made for another circuit shape never decodes.
C22_KeyFailureCauses ==
    KeyDecodeCall
    => /\ call.key.kind \in {"garbage", "empty"} => ~call.res.ok
       /\ (KeyOfDecodersKind /\ ~KeyFits(call.key, call.params))
          => (/\ ~call.res.ok
              /\ call.res.err.variant # CorruptKeyResult.err.variant)

\* the part of the claim the model keeps: a key made for another shape does
\* not decode
OtherShapeKeyRejected ==
    (KeyDecodeCall /\ KeyOfDecodersKind /\ ~KeyFits(call.key, call.params))
    => ~call.res.ok

(***************************************************************************)
(* The course of one call: claims.                                         *)
(***************************************************************************)
\* a call of one of the services
ServiceCall ==
    call.op \in {"gen_witness", "gen_witness_internal", "prove",
                 "prove_advanced", "verify", "verify_wrapper"}

\* the steps of the Decoding phase: reading, parsing and binding the inputs
DecodeSteps ==
    {"deserialize_circuit", "from_str", "deserialize_vk", "load_graph_input",
     "load_graph_witness", "pretty_public_inputs", "prepare_public_inputs",
     "deserialize_pk", "deserialize_params_prover", "GraphSettings::load",
     "load_proof", "load_params_verifier", "Strategy::new", "load_vk"}

\* the steps of the Executing phase: the collaborator's operations and the
\* serialization of their output
ExecSteps ==
    {"forward", "compile", "create_proof_circuit", "verify_proof_circuit",
     "as_json", "to_string"}

\* the call reached the Executing phase
Executing == \E i \in 1..Len(call.steps) : call.steps[i] \in ExecSteps

\* every decode step of the call succeeds on the call's arguments
AllDecodesSucceed ==
    IF call.op \in {"gen_witness", "gen_witness_internal"}
    THEN LET circuit == deserialize_circuit(call.args.circuit)
             data == from_str("GraphData", call.args.input)
             st == circuit.val.settings
         IN  /\ circuit.ok
             /\ data.ok
             /\ call.args.vk.kind # "none"
                => deserialize_vk("KZG", call.args.vk, st).ok
             /\ load_graph_input(circuit.val, data.val).ok
             /\ (RequiresPolycommit(st.shape) /\ call.args.srs.kind # "none")
                => deserialize_params_prover(st.commitment, call.args.srs,
                                             st.logrows).ok
    ELSE IF call.op \in {"prove", "prove_advanced"}
    THEN LET data == from_str("GraphWitness", call.args.witness)
             circuit == deserialize_circuit(call.args.circuit)
             st == circuit.val.settings
         IN  /\ data.ok
             /\ circuit.ok
             /\ load_graph_witness(circuit.val, data.val).ok
             /\ deserialize_pk(st.commitment, call.args.pk, st).ok
             /\ deserialize_params_prover(st.commitment, call.args.srs,
                                          st.logrows).ok
    ELSE LET st == load_settings(call.args.settings)
         IN  /\ st.ok
             /\ load_proof(call.args.proof_json, call.args.proof_path).ok
             /\ load_params_verifier(
                  st.val.commitment, call.args.srs,
                  IF st.val.commitment = "KZG" /\ call.args.reduced_srs
                  THEN 1 ELSE st.val.logrows).ok
             /\ load_vk(st.val.commitment, call.args.vk, st.val).ok

\* C23: a service call starts in Decoding; it ends there in Error, or moves
\* to Executing, never back, and ends in exactly one of Success(output) or
\* Error; the collaborator's forward execution, proof creation or proof
\* verification runs only after every decode step of the call has succeeded;
\* a call that ends in Error returns no output beside the error.
C23_CallStateMachine ==
    ServiceCall
    => /\ call.steps # <<>>
       /\ call.steps[1] \in DecodeSteps
       /\ \A i \in 1..Len(call.steps) :
            call.steps[i] \in DecodeSteps \cup ExecSteps
       /\ \A i, j \in 1..Len(call.steps) :
            (i < j /\ call.steps[i] \in ExecSteps)
            => call.steps[j] \in ExecSteps
       /\ ~Executing => ~call.res.ok
       /\ Executing <=> AllDecodesSucceed
       /\ call.res.ok => DOMAIN call.res = {"ok", "val"}
       /\ ~call.res.ok => DOMAIN call.res = {"ok", "err"}

\* a proving call went through Decoding into Executing and ended in Error
\* there, returning only the error
C23_Witness ==
    /\ call.op = "prove_advanced"
    /\ Executing
    /\ AllDecodesSucceed
    /\ call.steps[Len(call.steps)] = "create_proof_circuit"
    /\ ~call.res.ok
    /\ DOMAIN call.res = {"ok", "err"}

IsPrefix(s, t) ==
    /\ Len(s) <= Len(t)
    /\ \A i \in 1..Len(s) : s[i] = t[i]

\* the steps a service call consists of, in program order, each listed once
\* per place in the code (verify and verify_commitment each decode the proof;
\* gen_witness_internal and gen_witness each render the witness)
Plan ==
    IF call.op \in {"gen_witness", "gen_witness_internal"}
    THEN <<"deserialize_circuit">> \o
         (IF call.args.circuit.kind # "circuit" THEN <<>>
          ELSE <<"from_str">> \o
               (IF call.args.vk.kind # "none"
                THEN <<"deserialize_vk">> ELSE <<>>) \o
               <<"load_graph_input">> \o
               (IF /\ RequiresPolycommit(call.args.circuit.settings.shape)
                   /\ call.args.srs.kind # "none"
                THEN <<"deserialize_params_prover">> ELSE <<>>) \o
               <<"forward", "as_json">> \o
               (IF call.op = "gen_witness" THEN <<"as_json">> ELSE <<>>))
    ELSE IF call.op \in {"prove", "prove_advanced"}
    THEN <<"from_str", "deserialize_circuit", "load_graph_witness",
           "pretty_public_inputs", "prepare_public_inputs", "deserialize_pk",
           "deserialize_params_prover">> \o
         (IF call.args.proof_type = "ForAggr" THEN <<"compile">> ELSE <<>>) \o
         <<"create_proof_circuit", "to_string">>
    ELSE <<"GraphSettings::load", "load_proof", "load_params_verifier",
           "load_proof", "Strategy::new", "load_vk", "verify_proof_circuit">>

\* C25: within one service call each decode step and each collaborator
\* operation is attempted at most once, in program order, and the first
\* failure ends the call: the steps run are an initial part of the call's
\* steps, all of them when the call succeeds, and none is run again.
C25_NoRetries ==
    ServiceCall
    => /\ IsPrefix(call.steps, Plan)
       /\ call.res.ok => call.steps = Plan
       /\ call.steps # Plan => ~call.res.ok
       /\ \A i, j \in 1..Len(call.steps) :
            (i < j /\ call.steps[i] = call.steps[j])
            => call.steps[i] \in {"load_proof", "as_json"}

\* a verification call whose proof check rejected the proof ended there,
\* with the check run once
C25_Witness ==
    /\ call.op = "verify"
    /\ call.steps = Plan
    /\ ~call.res.ok
    /\ call.obs.kind = "verify"
    /\ ~call.obs.accepted

(***************************************************************************)
(* Step order and error precedence: claims.                                *)
(***************************************************************************)
\* a call of verify or verify_wrapper
VerifyCall == call.op \in {"verify", "verify_wrapper"}

\* the error a call reports for an error of the collaborator's type: verify
\* returns it as it is, the exported functions convert it at the boundary
Reported(res) == IF call.op \in {"verify", "gen_witness_internal"}
                 THEN res ELSE MapErrInto(res)

\* the decode steps of verify on the call's arguments, in the order settings,
\* proof, verifier parameters, verifying key: the first that fails, with its
\* error, or "none"
VerifyFirstFailure ==
    LET st == load_settings(call.args.settings)
        proof == load_proof(call.args.proof_json, call.args.proof_path)
        params == load_params_verifier(
                    st.val.commitment, call.args.srs,
                    IF st.val.commitment = "KZG" /\ call.args.reduced_srs
                    THEN 1 ELSE st.val.logrows)
        vk == load_vk(st.val.commitment, call.args.vk, st.val)
    IN  IF ~st.ok THEN [at |-> "GraphSettings::load", res |-> st]
        ELSE IF ~proof.ok THEN [at |-> "load_proof", res |-> proof]
        ELSE IF ~params.ok THEN [at |-> "load_params_verifier", res |-> params]
        ELSE IF ~vk.ok THEN [at |-> "load_vk", res |-> vk]
        ELSE [at |-> "none"]

\* C26: verify runs settings load, proof decode, verifier-parameter decode,
\* pipeline selection by the proof's transcript kind, verifying-key decode
\* and the proof check, in this order; when several inputs are bad the error
\* returned is that of the earliest failing step.
C26_VerifyOrder ==
    VerifyCall
    => /\ IsPrefix(call.steps, Plan)
       /\ VerifyFirstFailure.at # "none"
          => (/\ call.res = Reported(VerifyFirstFailure.res)
              /\ call.steps[Len(call.steps)] = VerifyFirstFailure.at
              /\ "verify_proof_circuit" \notin StepsRun)
       /\ VerifyFirstFailure.at = "none"
          => (/\ call.steps = Plan
              /\ call.obs.kind = "verify"
              /\ TranscriptKind(call.obs.types.tr) =
                   call.obs.proof.transcript_type)

\* a call with a malformed proof, an SRS that does not decode and a corrupt
\* verifying key returned the error of the proof
C26_Witness ==
    /\ VerifyCall
    /\ call.op = "verify"
    /\ call.args.proof_json = MalformedJson
    /\ call.args.proof_path.kind = "none"
    /\ call.args.srs = GarbageBytes
    /\ call.args.vk = GarbageBytes
    /\ VerifyFirstFailure.at = "load_proof"
    /\ call.res = from_str("Snark", MalformedJson)
    /\ call.steps = <<"GraphSettings::load", "load_proof">>

\* a call of prove or prove_advanced
ProveCall == call.op \in {"prove", "prove_advanced"}

\* the decode steps of prove_internal on the call's arguments, in the order
\* witness parse, circuit decode, witness binding, public inputs (rendered,
\* then raw), proving key, prover parameters: the first that fails, with its
\* error, or "none"
ProveFirstFailure ==
    LET data == from_str("GraphWitness", call.args.witness)
        decoded == deserialize_circuit(call.args.circuit)
        circuit == load_graph_witness(decoded.val, data.val)
        pretty == pretty_public_inputs(circuit.val, data.val)
        public == prepare_public_inputs(circuit.val, data.val)
        st == circuit.val.settings
        pk == deserialize_pk(st.commitment, call.args.pk, st)
        params == deserialize_params_prover(st.commitment, call.args.srs,
                                            st.logrows)
    IN  IF ~data.ok THEN [at |-> "from_str", res |-> data]
        ELSE IF ~decoded.ok THEN [at |-> "deserialize_circuit", res |-> decoded]
        ELSE IF ~circuit.ok THEN [at |-> "load_graph_witness", res |-> circuit]
        ELSE IF ~pretty.ok THEN [at |-> "pretty_public_inputs", res |-> pretty]
        ELSE IF ~public.ok THEN [at |-> "prepare_public_inputs", res |-> public]
        ELSE IF ~pk.ok THEN [at |-> "deserialize_pk", res |-> pk]
        ELSE IF ~params.ok
        THEN [at |-> "deserialize_params_prover", res |-> params]
        ELSE [at |-> "none"]

\* what the same proving call reports with another proving key and SRS
ProveResultWith(pk, srs) ==
    prove_advanced(call.args.witness, call.args.circuit, pk, srs,
                   call.args.proof_type, call.args.check_mode).res

\* C27: prove_internal runs witness JSON parse, circuit decode, witness
\* binding, public-input extraction (rendered, then raw), proving-key decode,
\* prover-parameter decode, protocol compilation (ForAggregation only) and
\* proof creation, in this order; the proving key is decoded before the SRS,
\* and a witness that does not bind to the circuit fails the call before any
\* key or SRS bytes are examined.
C27_ProveOrder ==
    ProveCall
    => /\ IsPrefix(call.steps, Plan)
       /\ ProveFirstFailure.at # "none"
          => (/\ call.res = Reported(ProveFirstFailure.res)
              /\ call.steps[Len(call.steps)] = ProveFirstFailure.at
              /\ "create_proof_circuit" \notin StepsRun)
       /\ ProveFirstFailure.at = "none"
          => (/\ "create_proof_circuit" \in StepsRun
              /\ call.obs.kind = "prove")
       /\ ProveFirstFailure.at = "load_graph_witness"
          => (/\ "deserialize_pk" \notin StepsRun
              /\ "deserialize_params_prover" \notin StepsRun
              /\ \A pk \in PkArgs(call.args.circuit.settings),
                    srs \in SrsBuffers :
                   ProveResultWith(pk, srs) = call.res)

\* a call with a corrupt proving key and an SRS that does not decode
\* returned the error of the proving key
C27_Witness ==
    /\ ProveCall
    /\ call.args.pk = GarbageBytes
    /\ call.args.srs = GarbageBytes
    /\ ProveFirstFailure.at = "deserialize_pk"
    /\ call.steps[Len(call.steps)] = "deserialize_pk"
    /\ call.res = MapErrInto(deserialize_pk("KZG", GarbageBytes,
                                            call.args.circuit.settings))

(***************************************************************************)
(* Outputs and entry points: claims.                                       *)
(***************************************************************************)
\* the circuit of a proving call with the call's witness bound to it, and
\* the witness
BoundCircuit == deserialize_circuit(call.args.circuit).val
BoundWitness == from_str("GraphWitness", call.args.witness).val

\* the snark proof creation returned in a proving call that reached it
CreatedSnark ==
    create_proof_circuit(call.obs.types, BoundCircuit,
                         <<prepare_public_inputs(BoundCircuit,
                                                 BoundWitness).val>>,
                         call.obs.params, call.obs.pk, call.obs.check_mode,
                         BoundCircuit.settings.commitment, call.obs.transcript,
                         SplitCommits(BoundWitness), call.obs.protocol)

\* C28: the proof a successful proving call returns carries as its rendered
\* public inputs the rendering computed from the bound witness; it replaces
\* what proof creation left in the field, nothing else of the snark is
\* changed, and a failed proof creation returns its error with no snark.
C28_PrettyPublicInputs ==
    ProofCreationReached
    => /\ call.res.ok
          => (/\ CreatedSnark.ok
              /\ ReturnedSnark.pretty_public_inputs =
                   pretty_public_inputs(BoundCircuit, BoundWitness).val
              /\ ReturnedSnark.pretty_public_inputs #
                   CreatedSnark.val.pretty_public_inputs
              /\ ReturnedSnark.pretty_public_inputs.rendered =
                   ReturnedSnark.instances[1]
              /\ ReturnedSnark =
                   [CreatedSnark.val EXCEPT !.pretty_public_inputs =
                      pretty_public_inputs(BoundCircuit, BoundWitness).val])
       /\ ~call.res.ok
          => (/\ ~CreatedSnark.ok
              /\ call.res = MapErrInto(CreatedSnark)
              /\ DOMAIN call.res = {"ok", "err"})

\* a proof of a circuit with two instance values was returned with both
\* rendered
C28_Witness ==
    /\ ProofCreationReached
    /\ call.res.ok
    /\ ReturnedSnark.pretty_public_inputs.kind = "PrettyElements"
    /\ Len(ReturnedSnark.pretty_public_inputs.rendered) = NumShapes
    /\ CreatedSnark.val.pretty_public_inputs = None

\* a call through the public gen_witness entry point whose circuit decoded
\* and whose input parsed
EntryWitnessCall ==
    /\ call.op = "gen_witness"
    /\ deserialize_circuit(call.args.circuit).ok
    /\ from_str("GraphData", call.args.input).ok

\* the same, with the verifying key decoded and the input loaded, so that the
\* call reached the forward pass
EntryWitnessForward ==
    /\ EntryWitnessCall
    /\ deserialize_vk("KZG", call.args.vk, CircuitSettings).ok
    /\ load_graph_input(deserialize_circuit(call.args.circuit).val,
                        from_str("GraphData", call.args.input).val).ok

\* C29: through gen_witness the verifying key and the SRS are passed as
\* present even when the buffers are empty: the verifying key is always
\* decoded, for a circuit that requires a polynomial commitment the SRS is
\* always decoded, the warn-and-continue branch is never taken, and an empty
\* or malformed SRS makes the call return an error.
C29_EntryPassesPresent ==
    /\ EntryWitnessCall
       => /\ call.args.vk.kind # "none"
          /\ call.args.srs.kind # "none"
          /\ "deserialize_vk" \in StepsRun
          /\ call.obs.kind = "gen_witness" => ~call.obs.warned
    /\ (EntryWitnessForward /\ RequiresPolycommit(CircuitSettings.shape))
       => /\ "deserialize_params_prover" \in StepsRun
          /\ call.args.srs \in {EmptyBytes, GarbageBytes}
             => /\ ~call.res.ok
                /\ call.res = MapErrInto(DeclaredParams)
                /\ "forward" \notin StepsRun

\* gen_witness on a circuit that requires a polynomial commitment, with a
\* good verifying key and an empty SRS buffer, returned the decoding error
C29_Witness ==
    /\ EntryWitnessForward
    /\ RequiresPolycommit(CircuitSettings.shape)
    /\ call.args.srs = EmptyBytes
    /\ "deserialize_params_prover" \in StepsRun
    /\ ~call.res.ok

\* the error verify returns when the proof does not come from one source
ProofSourceError ==
    Err("IoError",
        "Proof must be provided in one of the two ways: json or path")

\* the number of proof sources the call was given
ProofSourcesGiven ==
    (IF call.args.proof_json.kind # "none" THEN 1 ELSE 0)
    + (IF call.args.proof_path.kind # "none" THEN 1 ELSE 0)

\* C30: verify takes the proof from exactly one source: given both or neither
\* it returns the invalid-input I/O error once the settings are loaded,
\* without loading parameters or the verifying key; verify_wrapper gives the
\* JSON and no path, so it never reports that error; and the proof that is
\* checked is the one decoded from that source, whose transcript kind is the
\* one the check reads it with.
C30_OneProofSource ==
    /\ (call.op = "verify" /\ load_settings(call.args.settings).ok)
       => /\ ProofSourcesGiven # 1
             => /\ call.res = ProofSourceError
                /\ call.steps = <<"GraphSettings::load", "load_proof">>
                /\ call.obs = NoObs
          /\ ProofSourcesGiven = 1 => call.res # ProofSourceError
    /\ call.op = "verify_wrapper"
       => /\ call.args.proof_json.kind # "none"
          /\ call.args.proof_path.kind = "none"
          /\ call.res # MapErrInto(ProofSourceError)
          /\ load_settings(call.args.settings).ok
             => Len(call.steps) >= 2 /\ call.steps[2] = "load_proof"
    /\ ProofCheckReached
       => /\ ProofSourcesGiven = 1
          /\ call.obs.proof =
               load_proof(call.args.proof_json, call.args.proof_path).val
          /\ TranscriptKind(call.obs.types.tr) =
               call.obs.proof.transcript_type

\* verify was given a good proof both as JSON and as a file, with good
\* settings, key and SRS, and returned the proof source error
C30_Witness ==
    /\ call.op = "verify"
    /\ load_settings(call.args.settings).ok
    /\ call.args.proof_json.kind # "none"
    /\ call.args.proof_path = call.args.proof_json
    /\ from_str("Snark", call.args.proof_json).ok
    /\ call.args.vk.kind = "vk"
    /\ call.res = ProofSourceError

====
